---------------------------- MODULE Spec2Model ----------------------------
(***************************************************************************)
(* Model of the VM instruction-set recovery engine of Cornedru/Solver_test *)
(* (src/src/parser, src/src/disassembler) and of the start of a solve      *)
(* (src/src/solver).  Each component is a record-valued variable holding   *)
(* the fields of the Rust struct it models; each visitor callback is one   *)
(* action.  Every component has its own specification (SpecNorm, SpecFF,   *)
(* SpecOP, SpecDis, SpecSV, SpecFO, SpecHd, SpecVf, SpecFd, SpecTC), in    *)
(* which the other components stay idle; under SpecDis ff and op hold what *)
(* the two visitors left for parse_script_interpreter.                     *)
(***************************************************************************)
EXTENDS Integers, Sequences, FiniteSets, TLC

VARIABLES
    nb,     \* harness around normalize_bits: input, first and second result
    ff,     \* FindFunctions (parser/functions.rs)
    op,     \* OpcodeParser (parser/magic_bits.rs)
    dis,    \* locals of parse_script_interpreter (disassembler/disassemble.rs)
    sv,     \* ScriptVisitor (parser/vm.rs)
    fo,     \* FindOffset (parser/offset.rs)
    hd,     \* harness around OpcodeParser::process_by_test_count
    vf,     \* harness around one assignment and one function of OpcodeParser
    fd,     \* harness around one visit and one fold of FindFunctions
    tc      \* TaskClient::initialize_solve (solver/task_client.rs)

vars == <<nb, ff, op, dis, sv, fo, hd, vf, fd, tc>>

None == "none"

(***************************************************************************)
(* Bounds of the model                                                     *)
(***************************************************************************)
MaxLen == 5         \* longest enumerated input of normalize_bits

(***************************************************************************)
(* Program constants                                                       *)
(***************************************************************************)
MarkerHi == 195     \* first element of the marker pair
MarkerLo == 188     \* second element of the marker pair
Separator == 127    \* separator token

(***************************************************************************)
(* BitsNormalizer: normalize_bits (magic_bits.rs 600-631)                  *)
(* Sequences are 1-based here; i is the 1-based scan position.             *)
(***************************************************************************)
IsPairAt(raw, i) ==
    i + 1 <= Len(raw) /\ raw[i] = MarkerHi /\ raw[i + 1] = MarkerLo

\* the inner while loop: consume consecutive (195,188) pairs
RECURSIVE ConsumePairs(_, _)
ConsumePairs(raw, i) ==
    IF IsPairAt(raw, i) THEN ConsumePairs(raw, i + 2) ELSE i

\* the outer while loop
RECURSIVE NormLoop(_, _, _)
NormLoop(raw, i, out) ==
    IF i > Len(raw) THEN out
    ELSE IF IsPairAt(raw, i) THEN NormLoop(raw, ConsumePairs(raw, i), out)
    ELSE IF raw[i] = Separator THEN NormLoop(raw, i + 1, out)
    ELSE NormLoop(raw, i + 1, Append(out, raw[i]))

\* mutant: the separator is not removed
RECURSIVE NormLoopKeepSep(_, _, _)
NormLoopKeepSep(raw, i, out) ==
    IF i > Len(raw) THEN out
    ELSE IF IsPairAt(raw, i) THEN NormLoopKeepSep(raw, ConsumePairs(raw, i), out)
    ELSE NormLoopKeepSep(raw, i + 1, Append(out, raw[i]))

normalize_bits_keep_sep(raw) == NormLoopKeepSep(raw, 1, <<>>)

normalize_bits(raw) == NormLoop(raw, 1, <<>>)

(***************************************************************************)
(* SpecNorm: normalize_bits applied to an input, then to its own result    *)
(***************************************************************************)
NormAlphabet == {MarkerHi, MarkerLo, Separator, 5, 6, 7}

RECURSIVE SeqsUpTo(_, _)
SeqsUpTo(S, n) ==
    IF n = 0 THEN {<<>>}
    ELSE LET shorter == SeqsUpTo(S, n - 1)
         IN  shorter \cup {Append(s, x) : s \in shorter, x \in S}

NormExamples ==
    { <<195, 188, 195, 188, 5, 127, 6>>, <<195, 7>>,
      <<195, 195, 188, 188>>, <<195, 127, 188>> }

NormInputs == SeqsUpTo(NormAlphabet, MaxLen) \cup NormExamples

NbIdle == [pc |-> "idle", raw |-> <<>>, once |-> <<>>, twice |-> <<>>]

NormalizeOnce ==
    /\ nb.pc = "in"
    /\ nb' = [nb EXCEPT !.pc = "once", !.once = normalize_bits(nb.raw)]
    /\ UNCHANGED <<ff, op, dis, sv, fo, hd, vf, fd, tc>>

NormalizeTwice ==
    /\ nb.pc = "once"
    /\ nb' = [nb EXCEPT !.pc = "twice", !.twice = normalize_bits(nb.once)]
    /\ UNCHANGED <<ff, op, dis, sv, fo, hd, vf, fd, tc>>


(***************************************************************************)
(* AST expressions.  Every node is a record with the same four fields:     *)
(* t the node kind, s a string payload (identifier name, operator, string  *)
(* value, property name), n a numeric payload (literal value; for a string *)
(* literal made of decimal digits, its value), kids the child expressions. *)
(* A string literal has s = "digits" when its text is a decimal number,    *)
(* s = "NaN" for the text NaN, and its own text otherwise.                 *)
(***************************************************************************)
Node(t, s, n, kids) == [t |-> t, s |-> s, n |-> n, kids |-> kids]
Num(v) == Node("num", "", v, <<>>)
StrNum(v) == Node("str", "digits", v, <<>>)
Str(text) == Node("str", text, 0, <<>>)
Ident(name) == Node("ident", name, 0, <<>>)
Paren(e) == Node("paren", "", 0, <<e>>)
SeqExpr(es) == Node("seq", "", 0, es)
Unary(o, e) == Node("unary", o, 0, <<e>>)
Binary(o, l, r) == Node("binary", o, 0, <<l, r>>)
Logical(o, l, r) == Node("logical", o, 0, <<l, r>>)
Cond(c, a, b) == Node("cond", "", 0, <<c, a, b>>)
Call(callee, args) == Node("call", "", 0, <<callee>> \o args)
Computed(obj, e) == Node("computed", "", 0, <<obj, e>>)
Static(obj, prop) == Node("static", prop, 0, <<obj>>)
Array(els) == Node("array", "", 0, els)
Spread == Node("spread", "", 0, <<>>)      \* an array element that is no expression
ObjectLit == Node("object", "", 0, <<>>)
NewExpr == Node("new", "", 0, <<>>)
This == Node("this", "", 0, <<>>)

CallArgs(call) == SubSeq(call.kids, 2, Len(call.kids))

(***************************************************************************)
(* f64 values of the constant folder: an integer, NaN, or no value.        *)
(***************************************************************************)
VNone == [k |-> "none", v |-> 0]
VNaN == [k |-> "nan", v |-> 0]
VInt(x) == [k |-> "int", v |-> x]
IsSome(val) == val.k # "none"

U16Max == 65535

\* Rust `f64 as u16`: saturating, NaN gives 0
F64AsU16(val) ==
    IF val.k = "nan" THEN 0
    ELSE IF val.v < 0 THEN 0
    ELSE IF val.v > U16Max THEN U16Max
    ELSE val.v

\* Rust `f64 as i64`: NaN gives 0.  The saturation at +-2^63 is outside the
\* integers TLC represents; every enumerated value lies far inside i64.
F64AsI64(val) == IF val.k = "nan" THEN 0 ELSE val.v

\* Rust `f64 as u64`: saturating at 0, NaN gives 0
F64AsU64(val) == IF val.k = "nan" \/ val.v < 0 THEN 0 ELSE val.v

\* Rust `u64 as u16`: truncating
U64AsU16(x) == x % (U16Max + 1)

\* i64 bit operations, on the two's complement representation: bit by bit,
\* until both operands are all zeros (0) or all ones (-1)
BitOf(o, x, y) ==
    CASE o = "&" -> IF x = 1 /\ y = 1 THEN 1 ELSE 0
      [] o = "|" -> IF x = 1 \/ y = 1 THEN 1 ELSE 0
      [] OTHER   -> IF x # y THEN 1 ELSE 0

RECURSIVE I64Bits(_, _, _)
I64Bits(o, a, b) ==
    IF a \in {0, -1} /\ b \in {0, -1}
    THEN -BitOf(o, -a, -b)
    ELSE BitOf(o, a % 2, b % 2) + 2 * I64Bits(o, a \div 2, b \div 2)

\* f64 remainder: the sign follows the dividend; x % 0 is NaN
F64Rem(l, r) ==
    IF r = 0 THEN VNaN
    ELSE LET m == (IF l < 0 THEN -l ELSE l) % (IF r < 0 THEN -r ELSE r)
         IN  VInt(IF l < 0 THEN -m ELSE m)

Truthy(val) == ~(val.k = "int" /\ val.v = 0) /\ val.k # "nan"

NoVal == -1         \* an absent u16 or u64 (Option::None)
NoName == ""        \* an absent name (Option::None, or an anonymous function)

EmptyMap == [x \in {} |-> 0]
Insert(map, k, v) == (k :> v) @@ map
Remove(map, k) == [x \in DOMAIN map \ {k} |-> map[x]]

(***************************************************************************)
(* ConstantFolder: FindFunctions::resolve_expr (functions.rs 33-77).       *)
(* Values are integers or NaN.  Results the model has no integer for are   *)
(* kept apart as kinds of their own: "frac" a quotient that is no integer, *)
(* "big" an integer of magnitude 2^31 or more, "shift" a shift by a count  *)
(* outside 0..63 (a panic in a debug build, a wrapped count in a release   *)
(* build) or of an operand the model does not follow through 64 bits.      *)
(***************************************************************************)
Abs(x) == IF x < 0 THEN -x ELSE x

\* (l as i64) << (r as i64) and (l as i64) >> (r as i64) (58-59)
I64Shift(o, l, r) ==
    IF r < 0 \/ r >= 64 THEN [k |-> "shift", v |-> 0]
    ELSE IF o = ">>"
         THEN VInt(IF r >= 31 THEN (IF l < 0 THEN -1 ELSE 0) ELSE l \div 2 ^ r)
    ELSE IF l = 0 \/ r = 0 THEN VInt(l)
    ELSE IF r <= 30 /\ Abs(l) < 2 ^ (31 - r) THEN VInt(l * 2 ^ r)
    ELSE IF r <= 39 /\ Abs(l) < 2 ^ 23 THEN [k |-> "big", v |-> 0]
    ELSE [k |-> "shift", v |-> 0]

Arith(o, l, r) ==
    IF l.k = "nan" \/ r.k = "nan" THEN
        IF o \in {"+", "-", "*", "/", "%"} THEN VNaN ELSE
        \* bit operators cast first: NaN as i64 is 0
        IF o \in {"&", "|", "^"} THEN VInt(I64Bits(o, F64AsI64(l), F64AsI64(r)))
        ELSE IF o \in {"<<", ">>"} THEN I64Shift(o, F64AsI64(l), F64AsI64(r))
        ELSE VNone
    ELSE CASE o = "+" -> VInt(l.v + r.v)
      [] o = "-" -> VInt(l.v - r.v)
      [] o = "*" -> VInt(l.v * r.v)
      [] o = "/" -> IF r.v # 0 /\ l.v % r.v = 0 THEN VInt(l.v \div r.v)
                    ELSE IF r.v = 0 /\ l.v = 0 THEN VNaN
                    ELSE [k |-> "frac", v |-> 0]
      [] o = "%" -> F64Rem(l.v, r.v)
      [] o \in {"&", "|", "^"} -> VInt(I64Bits(o, l.v, r.v))
      [] o \in {"<<", ">>"} -> I64Shift(o, l.v, r.v)
      [] OTHER -> VNone

RECURSIVE resolve_expr(_, _)
resolve_expr(variables, expr) ==
    CASE expr.t = "num" -> VInt(expr.n)
      [] expr.t = "str" ->
            IF expr.s = "digits" THEN VInt(expr.n)
            ELSE IF expr.s = "NaN" THEN VNaN ELSE VNone
      [] expr.t = "ident" ->
            IF expr.s \in DOMAIN variables THEN variables[expr.s] ELSE VNone
      [] expr.t = "paren" -> resolve_expr(variables, expr.kids[1])
      [] expr.t = "seq" ->
            IF expr.kids = <<>> THEN VNone
            ELSE resolve_expr(variables, expr.kids[Len(expr.kids)])
      [] expr.t = "unary" ->
            LET val == resolve_expr(variables, expr.kids[1])
            IN  IF ~IsSome(val) THEN VNone
                ELSE CASE expr.s = "-" -> IF val.k = "nan" THEN VNaN ELSE VInt(-val.v)
                       [] expr.s = "+" -> val
                       [] expr.s = "~" -> VInt(-F64AsI64(val) - 1)
                       [] expr.s = "!" -> IF val.k = "int" /\ val.v = 0
                                          THEN VInt(1) ELSE VInt(0)
                       [] OTHER -> VNone
      [] expr.t = "binary" ->
            LET left == resolve_expr(variables, expr.kids[1])
                right == resolve_expr(variables, expr.kids[2])
            IN  IF IsSome(left) /\ IsSome(right)
                THEN Arith(expr.s, left, right) ELSE VNone
      [] expr.t = "logical" ->
            LET left == resolve_expr(variables, expr.kids[1])
                right == resolve_expr(variables, expr.kids[2])
            IN  CASE expr.s = "||" ->
                        IF IsSome(left) /\ Truthy(left) THEN left ELSE right
                  [] expr.s = "&&" ->
                        IF IsSome(left)
                        THEN (IF ~Truthy(left) THEN left ELSE right)
                        ELSE VNone
                  [] expr.s = "??" -> IF IsSome(left) THEN left ELSE right
                  [] OTHER -> VNone
      [] expr.t = "cond" ->
            LET test == resolve_expr(variables, expr.kids[1])
            IN  IF IsSome(test)
                THEN (IF Truthy(test) THEN resolve_expr(variables, expr.kids[2])
                      ELSE resolve_expr(variables, expr.kids[3]))
                ELSE VNone
      [] OTHER -> VNone

(***************************************************************************)
(* FindFunctions::extract_numeric_literal (functions.rs 92-116): the first *)
(* literal found, as u64, or NoVal.                                        *)
(***************************************************************************)
RECURSIVE extract_numeric_literal(_)
RECURSIVE FindLiteral(_, _, _)
\* find_map over es[i], es[i + step], ...: the first element giving a value
FindLiteral(es, i, step) ==
    IF i < 1 \/ i > Len(es) THEN NoVal
    ELSE LET v == IF es[i].t = "spread" THEN NoVal
                  ELSE extract_numeric_literal(es[i])
         IN  IF v # NoVal THEN v ELSE FindLiteral(es, i + step, step)

extract_numeric_literal(expr) ==
    CASE expr.t = "num" -> F64AsU64(VInt(expr.n))
      [] expr.t = "str" -> IF expr.s = "digits" THEN expr.n ELSE NoVal
      [] expr.t \in {"paren", "unary"} -> extract_numeric_literal(expr.kids[1])
      [] expr.t = "binary" -> FindLiteral(expr.kids, 1, 1)
      [] expr.t = "seq" -> FindLiteral(expr.kids, Len(expr.kids), -1)
      [] expr.t = "call" -> FindLiteral(CallArgs(expr), 1, 1)
      [] expr.t = "computed" -> FindLiteral(<<expr.kids[2], expr.kids[1]>>, 1, 1)
      [] expr.t = "static" -> extract_numeric_literal(expr.kids[1])
      [] OTHER -> NoVal

(***************************************************************************)
(* FindFunctions::resolve_index (functions.rs 79-90)                       *)
(***************************************************************************)
resolve_index(variables, expr) ==
    LET whole == resolve_expr(variables, expr)
        left == IF expr.t = "binary"
                THEN resolve_expr(variables, expr.kids[1]) ELSE VNone
        right == IF expr.t = "binary"
                 THEN resolve_expr(variables, expr.kids[2]) ELSE VNone
        lit == extract_numeric_literal(expr)
    IN  IF IsSome(whole) THEN F64AsU16(whole)
        ELSE IF IsSome(left) /\ ~IsSome(right) THEN F64AsU16(left)
        ELSE IF ~IsSome(left) /\ IsSome(right) THEN F64AsU16(right)
        ELSE IF lit = NoVal THEN NoVal ELSE U64AsU16(lit)

(***************************************************************************)
(* FindFunctions::extract_function_name (functions.rs 118-149)             *)
(***************************************************************************)
ObjectIdentName(mem) ==
    IF mem.kids[1].t = "ident" THEN mem.kids[1].s ELSE NoName

extract_function_name(expr) ==
    CASE expr.t = "ident" -> expr.s
      [] expr.t = "call" ->
            LET callee == expr.kids[1]
            IN  CASE callee.t = "ident" -> callee.s
                  [] callee.t \in {"static", "computed"} -> ObjectIdentName(callee)
                  [] OTHER -> NoName
      [] expr.t \in {"static", "computed"} -> ObjectIdentName(expr)
      [] OTHER -> NoName

(***************************************************************************)
(* FindFunctions (functions.rs 13-25, 152-274)                             *)
(***************************************************************************)
VM_ENTRY == "VM_ENTRY"
BigBody == 50           \* a body with more statements is the dispatcher
MarkerIndex == 195      \* index rejected as a marker
SeparatorIndex == 127   \* index rejected as a separator
MaxIndex == 1000        \* a larger index is rejected as a parse error
KeySlot == 3            \* elements[3]: the key byte is the 4th element

MaxVisits == 3          \* nodes one traversal of the model visits

NoBody == -1            \* a function without body

\* what the traversal visited last: the kind of node, for a function its
\* declared name and the number of statements of its body, for an assignment
\* the index its target resolved to
Visit(kind, name, n, index) == [kind |-> kind, name |-> name, n |-> n, index |-> index]
NoVisit == Visit("none", NoName, NoBody, NoVal)

\* FindFunctions::default(), and where the traversal is: around holds, for
\* every function whose walk_function has not returned yet, outermost first,
\* whether it is a big function
FfInit ==
    [ last_function_name |-> NoName, is_big_function |-> FALSE,
      key |-> 0, constants |-> 0, function_with_opcodes |-> NoName,
      functions |-> EmptyMap, variables |-> EmptyMap, index_bits |-> EmptyMap,
      visited |-> 0, last |-> NoVisit, around |-> <<>> ]

\* mutant: the dispatcher keeps its declared name
FfFunctionNameDeclared(node) == node.name

\* visit_function (153-171); node = [name, body]: body.n is the number of
\* statements of the body, NoBody without body
FfFunctionName(node) ==
    IF node.body.n # NoBody /\ node.body.n > BigBody THEN VM_ENTRY ELSE node.name

FfVisitFunction(f, node) ==
    LET big == node.body.n # NoBody /\ node.body.n > BigBody
        name == FfFunctionName(node)
    IN  [f EXCEPT !.is_big_function = big,
                  !.last_function_name = name,
                  !.function_with_opcodes = IF big THEN name ELSE @,
                  !.around = Append(@, big)]

\* walk_function returns (171): the visitor does nothing more
FfLeaveFunction(f) ==
    [f EXCEPT !.around = SubSeq(@, 1, Len(@) - 1)]

\* visit_variable_declaration (173-184); decl is the sequence of declarators
\* [id, init]: id is NoName for a pattern, init is NoInit when absent
NoInit == Node("noinit", "", 0, <<>>)

RECURSIVE FfDeclare(_, _, _)
FfDeclare(variables, decl, i) ==
    IF i > Len(decl) THEN variables
    ELSE LET d == decl[i]
             val == IF d.init = NoInit THEN VNone
                    ELSE resolve_expr(variables, d.init)
         IN  FfDeclare(IF d.init # NoInit /\ d.id # NoName /\ IsSome(val)
                       THEN Insert(variables, d.id, val) ELSE variables,
                       decl, i + 1)

FfVisitVariableDeclaration(f, decl) ==
    [f EXCEPT !.variables = FfDeclare(f.variables, decl, 1)]

\* the raw bits of an array literal (217-234)
RECURSIVE RawBits(_, _)
RawBits(els, i) ==
    IF i > Len(els) THEN <<>>
    ELSE LET el == els[i]
             here == CASE el.t = "num" -> <<F64AsU16(VInt(el.n))>>
                       [] el.t = "str" ->
                             IF el.s = "digits" /\ el.n <= U16Max
                             THEN <<el.n>> ELSE <<>>
                       [] el.t = "unary" ->
                             IF el.kids[1].t = "num"
                             THEN <<F64AsU16(VInt(el.kids[1].n))>> ELSE <<>>
                       [] OTHER -> <<>>
         IN  here \o RawBits(els, i + 1)

\* the index of the assignment target (195-213).  A static target is
\* Static(obj, prop) with n the value of the first run of digits of the
\* property name, NoVal without digits: the name of a property is an
\* identifier and never parses as a number as a whole.
FfTargetIndex(variables, left) ==
    CASE left.t = "computed" -> resolve_index(variables, left.kids[2])
      [] left.t = "static" ->
            IF left.n # NoVal /\ left.n <= U16Max THEN left.n ELSE NoVal
      [] OTHER -> NoVal

\* mutant: only the markers are rejected
IndexAcceptedNoLimit(value) ==
    ~(value = MarkerIndex \/ value = SeparatorIndex)

\* is the resolved index accepted as a mapping (242-246)
IndexAccepted(value) ==
    ~(value = MarkerIndex \/ value = SeparatorIndex) /\ ~(value > MaxIndex)

\* mutant: the raw bits are captured for an accepted index only
FfVisitAssignmentAcceptedBits(f, left, right) ==
    LET val == resolve_expr(f.variables, right)
        variables == IF left.t = "ident" /\ IsSome(val)
                     THEN Insert(f.variables, left.s, val) ELSE f.variables
        value == FfTargetIndex(variables, left)
        bits == IF right.t = "array" THEN RawBits(right.kids, 1) ELSE <<>>
        index_bits == IF value # NoVal /\ IndexAccepted(value) /\ bits # <<>>
                      THEN Insert(f.index_bits, value, bits) ELSE f.index_bits
        name == extract_function_name(right)
        g == [f EXCEPT !.variables = variables, !.index_bits = index_bits]
    IN  IF value = NoVal \/ ~IndexAccepted(value) THEN g
        ELSE IF name # NoName
             THEN [g EXCEPT !.functions = Insert(@, name, value)]
        ELSE IF right.t = "array"
             THEN [g EXCEPT !.constants = value,
                            !.key = IF Len(right.kids) > KeySlot
                                       /\ right.kids[KeySlot + 1].t = "num"
                                    THEN F64AsU16(VInt(right.kids[KeySlot + 1].n))
                                    ELSE @]
        ELSE IF f.function_with_opcodes # NoName
             THEN [g EXCEPT !.functions = Insert(@, f.function_with_opcodes, value)]
        ELSE g

\* mutant: the key byte is taken from any 4th element
FfVisitAssignmentKeyAlways(f, left, right) ==
    LET val == resolve_expr(f.variables, right)
        variables == IF left.t = "ident" /\ IsSome(val)
                     THEN Insert(f.variables, left.s, val) ELSE f.variables
        value == FfTargetIndex(variables, left)
        bits == IF right.t = "array" THEN RawBits(right.kids, 1) ELSE <<>>
        index_bits == IF value # NoVal /\ bits # <<>>
                      THEN Insert(f.index_bits, value, bits) ELSE f.index_bits
        name == extract_function_name(right)
        g == [f EXCEPT !.variables = variables, !.index_bits = index_bits]
    IN  IF value = NoVal \/ ~IndexAccepted(value) THEN g
        ELSE IF name # NoName
             THEN [g EXCEPT !.functions = Insert(@, name, value)]
        ELSE IF right.t = "array"
             THEN [g EXCEPT !.constants = value,
                            !.key = IF Len(right.kids) > KeySlot
                                    THEN F64AsU16(VInt(right.kids[KeySlot + 1].n))
                                    ELSE @]
        ELSE IF f.function_with_opcodes # NoName
             THEN [g EXCEPT !.functions = Insert(@, f.function_with_opcodes, value)]
        ELSE g

\* visit_assignment_expression (186-273)
FfVisitAssignment(f, left, right) ==
    LET val == resolve_expr(f.variables, right)
        variables == IF left.t = "ident" /\ IsSome(val)
                     THEN Insert(f.variables, left.s, val) ELSE f.variables
        value == FfTargetIndex(variables, left)
        bits == IF right.t = "array" THEN RawBits(right.kids, 1) ELSE <<>>
        index_bits == IF value # NoVal /\ bits # <<>>
                      THEN Insert(f.index_bits, value, bits) ELSE f.index_bits
        name == extract_function_name(right)
        g == [f EXCEPT !.variables = variables, !.index_bits = index_bits]
    IN  IF value = NoVal \/ ~IndexAccepted(value) THEN g
        ELSE IF name # NoName
             THEN [g EXCEPT !.functions = Insert(@, name, value)]
        ELSE IF right.t = "array"
             THEN [g EXCEPT !.constants = value,
                            !.key = IF Len(right.kids) > KeySlot
                                       /\ right.kids[KeySlot + 1].t = "num"
                                    THEN F64AsU16(VInt(right.kids[KeySlot + 1].n))
                                    ELSE @]
        ELSE IF f.function_with_opcodes # NoName
             THEN [g EXCEPT !.functions = Insert(@, f.function_with_opcodes, value)]
        ELSE g

(***************************************************************************)
(* SpecFF: one traversal of FindFunctions over the nodes of a program, in  *)
(* the order the visitor meets them.                                       *)
(***************************************************************************)
FunctionNodes ==
    [name : {NoName, "f"}, body : [n : {NoBody, 0, BigBody, BigBody + 1}]]

Declarations ==
    { <<[id |-> "x", init |-> Num(195)]>>,
      <<[id |-> "x", init |-> NoInit], [id |-> "y", init |-> Ident("q")]>>,
      <<[id |-> NoName, init |-> Num(1)], [id |-> "x", init |-> Num(4)]>> }

IndexExprs ==
    { Num(3), Num(4), Num(127), Num(1000), Num(70000), Ident("x"),
      Binary("+", Ident("q"), Num(195)),
      Call(Ident("h"), <<Ident("q"), Num(66537)>>),
      This }

Targets ==
    {Computed(Ident("r"), e) : e \in IndexExprs}
        \cup {Node("static", "p", NoVal, <<Ident("r")>>),
              Node("static", "p6", 6, <<Ident("r")>>),
              Node("static", "_1001", 1001, <<Ident("r")>>)}

Rights ==
    { Ident("f"), Ident("g"),
      Call(Computed(Ident("g"), Str("bind")), <<This>>),
      Array(<<Num(1), Num(2)>>),
      Array(<<Num(195), StrNum(188), Unary("-", Num(9)), Num(42)>>),
      Array(<<Num(5), Spread, Num(6), Ident("k"), Num(7)>>),
      Array(<<Ident("k")>>),
      ObjectLit }

Assignments ==
    [left : Targets, right : Rights]
        \cup [left : {Ident("x")},
              right : {Num(195), Num(3), Ident("q"),
                       Logical("||", Ident("q"), Num(5)),
                       Logical("??", Ident("q"), Num(5)),
                       Logical("&&", Ident("q"), Num(5)),
                       Binary("+", Ident("q"), Num(5))}]
        \cup [left : {This}, right : {ObjectLit}]

FfIdle == [FfInit EXCEPT !.visited = -1]

VisitFunction ==
    /\ ff.visited \in 0 .. MaxVisits - 1
    /\ \E node \in FunctionNodes :
          ff' = [FfVisitFunction(ff, node) EXCEPT !.visited = @ + 1,
                    !.last = Visit("function", node.name, node.body.n, NoVal)]
    /\ UNCHANGED <<nb, op, dis, sv, fo, hd, vf, fd, tc>>

LeaveFunction ==
    /\ ff.around # <<>>
    /\ ff' = [FfLeaveFunction(ff) EXCEPT !.last = Visit("leave", NoName, NoBody, NoVal)]
    /\ UNCHANGED <<nb, op, dis, sv, fo, hd, vf, fd, tc>>

VisitVariableDeclaration ==
    /\ ff.visited \in 0 .. MaxVisits - 1
    /\ \E decl \in Declarations :
          ff' = [FfVisitVariableDeclaration(ff, decl) EXCEPT !.visited = @ + 1,
                    !.last = Visit("declaration", NoName, NoBody, NoVal)]
    /\ UNCHANGED <<nb, op, dis, sv, fo, hd, vf, fd, tc>>

VisitAssignmentExpression ==
    /\ ff.visited \in 0 .. MaxVisits - 1
    /\ \E a \in Assignments :
          ff' = [FfVisitAssignment(ff, a.left, a.right) EXCEPT !.visited = @ + 1,
                    !.last = Visit("assignment", NoName, NoBody,
                                   FfTargetIndex(ff.variables, a.left))]
    /\ UNCHANGED <<nb, op, dis, sv, fo, hd, vf, fd, tc>>

(***************************************************************************)
(* Opcodes (magic_bits.rs 20-183).  Every opcode is a record with the same *)
(* fields: tag the variant, bits, operator (Binary, Unary), swap (Binary), *)
(* tests (NewLiteral: tests, Heap: closures; a map from the test value to  *)
(* [bits, type_]).                                                         *)
(***************************************************************************)
UnaryOperator == <<"TypeOf", "Minus", "Plus", "LogicalNot", "BitwiseNot">>

LiteralType ==
    << "Null", "NaN", "Infinity", "True", "False", "Float", "Integer",
       "String", "NextValue", "CopyState", "Array", "Regexp" >>

BinaryOperator ==
    << "Addition", "Subtraction", "Multiplication", "Division", "Modulo",
       "LogicalAnd", "LogicalOr", "BitwiseAnd", "BitwiseOr", "BitwiseXor",
       "LeftShift", "RightShift", "UnsignedRightShift", "Equals",
       "EqualsStrict", "GreaterThan", "GreaterThanOrEqual", "InstanceOf", "In" >>

HeapType == <<"Set", "Get", "Init">>

Opcode(tag, bits, operator, swap, tests) ==
    [tag |-> tag, bits |-> bits, operator |-> operator, swap |-> swap, tests |-> tests]
DefaultOpcode(tag, bits) == Opcode(tag, bits, "", FALSE, EmptyMap)
UnaryOpcode(bits, operator) == Opcode("Unary", bits, operator, FALSE, EmptyMap)
BinaryOpcode(bits, operator, swap) == Opcode("Binary", bits, operator, swap, EmptyMap)
NewLiteralOpcode(bits, tests) == Opcode("NewLiteral", bits, "", FALSE, tests)
ClosureOpcode(bits, closures) == Opcode("Heap", bits, "", FALSE, closures)

Drop(seq, n) == SubSeq(seq, n + 1, Len(seq))
Take(seq, n) == SubSeq(seq, 1, n)
Min(a, b) == IF a < b THEN a ELSE b

(***************************************************************************)
(* The handlers of process_by_test_count.  Each takes and returns the      *)
(* record [opcodes, tests, bits, swaps, panicked]: the opcode table, the   *)
(* remaining tests of the TestExtractor, the remaining bits (and swaps) of *)
(* the bit extractor, and whether the handler panicked (a drain or a       *)
(* remove past the end of the vector aborts the process).                  *)
(***************************************************************************)
Panic(st) == [st EXCEPT !.panicked = TRUE]

\* mutant: a key already in the table keeps its entry
RECURSIVE handle_unary_opcodes_keep_first(_, _)
handle_unary_opcodes_keep_first(st, k) ==
    IF k > Len(UnaryOperator) \/ st.tests = <<>> THEN st
    ELSE IF Len(st.bits) < 2 THEN Panic(st)
    ELSE handle_unary_opcodes_keep_first(
            [st EXCEPT !.opcodes = IF Head(st.tests) \in DOMAIN @ THEN @
                                   ELSE Insert(@, Head(st.tests),
                                          UnaryOpcode(Take(st.bits, 2), UnaryOperator[k])),
                       !.tests = Tail(@),
                       !.bits = Drop(@, 2)],
            k + 1)

\* handle_unary_opcodes (213-225), from the k-th operator on
RECURSIVE handle_unary_opcodes(_, _)
handle_unary_opcodes(st, k) ==
    IF k > Len(UnaryOperator) \/ st.tests = <<>> THEN st
    ELSE IF Len(st.bits) < 2 THEN Panic(st)
    ELSE handle_unary_opcodes(
            [st EXCEPT !.opcodes = Insert(@, Head(st.tests),
                                          UnaryOpcode(Take(st.bits, 2), UnaryOperator[k])),
                       !.tests = Tail(@),
                       !.bits = Drop(@, 2)],
            k + 1)

\* the loop of handle_literal_opcodes (236-251); st.lit is the tests map
RECURSIVE LiteralLoop(_, _)
LiteralLoop(st, k) ==
    IF k > Len(LiteralType) \/ st.tests = <<>> THEN st
    ELSE LET type_ == LiteralType[k]
             one == type_ \in {"Integer", "String", "CopyState", "Array"}
         IN  IF one /\ st.bits = <<>> THEN Panic(st)
             ELSE LiteralLoop(
                    [st EXCEPT !.lit = Insert(@, Head(st.tests),
                                    [bits |-> IF one THEN Take(st.bits, 1)
                                              ELSE IF type_ = "Regexp" THEN st.bits
                                              ELSE <<>>,
                                     type_ |-> type_]),
                               !.tests = Tail(@),
                               !.bits = IF one THEN Tail(@) ELSE @],
                    k + 1)

\* handle_literal_opcodes (227-257)
handle_literal_opcodes(st, opcode_register) ==
    IF Len(st.bits) < 2 THEN Panic(st)
    ELSE LET bits == Take(st.bits, 2)
             done == LiteralLoop([st EXCEPT !.bits = Drop(@, 2), !.lit = EmptyMap], 1)
         IN  IF done.panicked THEN done
             ELSE [done EXCEPT !.opcodes = Insert(@, opcode_register,
                                                  NewLiteralOpcode(bits, done.lit))]

\* mutant: the first swap flag is read and never removed
RECURSIVE handle_binary_opcodes_same_swap(_, _)
handle_binary_opcodes_same_swap(st, k) ==
    IF k > Len(BinaryOperator) \/ st.tests = <<>> THEN st
    ELSE LET drain_len == Min(3, Len(st.bits))
             swap == IF st.swaps # <<>> THEN Head(st.swaps) ELSE FALSE
         IN  handle_binary_opcodes_same_swap(
                [st EXCEPT !.opcodes = Insert(@, Head(st.tests),
                                BinaryOpcode(Take(st.bits, drain_len), BinaryOperator[k], swap)),
                           !.tests = Tail(@),
                           !.bits = Drop(@, drain_len)],
                k + 1)

\* handle_binary_opcodes (259-285); st.bits are the BinaryBitExtractor's
RECURSIVE handle_binary_opcodes(_, _)
handle_binary_opcodes(st, k) ==
    IF k > Len(BinaryOperator) \/ st.tests = <<>> THEN st
    ELSE LET drain_len == Min(3, Len(st.bits))
             swap == IF st.swaps # <<>> THEN Head(st.swaps) ELSE FALSE
         IN  handle_binary_opcodes(
                [st EXCEPT !.opcodes = Insert(@, Head(st.tests),
                                BinaryOpcode(Take(st.bits, drain_len), BinaryOperator[k], swap)),
                           !.tests = Tail(@),
                           !.bits = Drop(@, drain_len),
                           !.swaps = IF @ # <<>> THEN Tail(@) ELSE @],
                k + 1)

\* the loop of handle_heap_opcodes (296-311)
RECURSIVE HeapLoop(_, _)
HeapLoop(st, k) ==
    IF k > Len(HeapType) \/ st.tests = <<>> THEN st
    ELSE LET closure == HeapType[k]
             one == closure # "Init" /\ st.bits # <<>>
         IN  HeapLoop(
                [st EXCEPT !.lit = Insert(@, Head(st.tests),
                                [bits |-> IF one THEN Take(st.bits, 1) ELSE <<>>,
                                 type_ |-> closure]),
                           !.tests = Tail(@),
                           !.bits = IF one THEN Tail(@) ELSE @],
                k + 1)

\* handle_heap_opcodes (287-320)
handle_heap_opcodes(st, opcode_register) ==
    LET bits == IF st.bits # <<>> THEN Head(st.bits) ELSE 0
        done == HeapLoop([st EXCEPT !.bits = IF @ # <<>> THEN Tail(@) ELSE @,
                                    !.lit = EmptyMap], 1)
    IN  [done EXCEPT !.opcodes = Insert(@, opcode_register,
                                        ClosureOpcode(<<bits>>, done.lit))]

\* process_by_test_count (322-345); bits are the BitExtractor's, bbits and
\* swaps the BinaryBitExtractor's
process_by_test_count(opcodes, opcode_register, tests, bits, bbits, swaps) ==
    LET test_count == Len(tests)
        st == [opcodes |-> opcodes, tests |-> tests, bits |-> bits,
               swaps |-> swaps, lit |-> EmptyMap, panicked |-> FALSE]
    IN  IF test_count = Len(UnaryOperator) THEN handle_unary_opcodes(st, 1)
        ELSE IF test_count = Len(LiteralType)
             THEN handle_literal_opcodes(st, opcode_register)
        ELSE IF test_count = Len(BinaryOperator) \/ test_count = Len(BinaryOperator) - 1
             THEN handle_binary_opcodes([st EXCEPT !.bits = bbits], 1)
        ELSE IF test_count = Len(HeapType)
             THEN handle_heap_opcodes(st, opcode_register)
        ELSE st

(***************************************************************************)
(* Statements and function bodies.  A body is the record                   *)
(*   [n, prev, last, tests, bits, cbits, bbits, swaps]:                    *)
(* n the number of top-level statements (NoBody without body), last and    *)
(* prev the final and the second-to-last statement (NoStmt when absent),   *)
(* and what the extractors of parser/utils.rs return on this body: tests   *)
(* (TestExtractor over prev), bits (BitExtractor over all statements),     *)
(* cbits (BitExtractor over the expression of prev), bbits and swaps       *)
(* (BinaryBitExtractor).                                                   *)
(***************************************************************************)
Assign(left, right) == Node("assign", "", 0, <<left, right>>)
ExprStmt(e) == Node("expr_stmt", "", 0, <<e>>)
Return(e) == Node("return", "", 0, <<e>>)
ReturnVoid == Node("return", "", 0, <<>>)
IfStmt == Node("if", "", 0, <<>>)
Throw == Node("throw", "", 0, <<>>)
OtherStmt == Node("other_stmt", "", 0, <<>>)
NoStmt == Node("nostmt", "", 0, <<>>)

IsAssignStmt(stmt) == stmt.t = "expr_stmt" /\ stmt.kids[1].t = "assign"

\* the extractors of parser/utils.rs, by their result on the body
TestExtractor(body) == body.tests
BitExtractor(body) == body.bits
BitExtractorOnPrev(body) == body.cbits
BinaryBitExtractor(body) == [bits |-> body.bbits, swaps |-> body.swaps]

\* extract_bits_for_default_opcode (205-211)
extract_bits_for_default_opcode(body) == BitExtractor(body)

(***************************************************************************)
(* OpcodeParser (magic_bits.rs 185-203, 348-596)                           *)
(***************************************************************************)
\* OpcodeParser::new; claims is the history of the claims of function
\* bodies, [reg, name, wrote]: the index claimed, under which name, and
\* whether the body wrote an opcode at it
OpNew(constants, functions) ==
    [ constants |-> constants, functions |-> functions, opcodes |-> EmptyMap,
      create_function_ident |-> NoName, window_register |-> 0,
      panicked |-> FALSE, claims |-> <<>>, visited |-> 0 ]

\* the create_function_ident marker (392-407)
IsCreateFunction(body) ==
    /\ body.last.t = "return"
    /\ body.last.kids # <<>>
    /\ body.last.kids[1].t = "computed"
    /\ body.n >= 2
    /\ body.prev.t = "expr_stmt"
    /\ body.last.kids[1].kids[1].t = "static"
    /\ body.last.kids[1].kids[2].t = "binary"
    /\ body.prev.kids[1].t = "assign"

\* the analysis of the second-to-last statement (419-481); returns
\* [opcodes, panicked, wrote]
SecondToLast(opcodes, opcode_register, body) ==
    LET same == [opcodes |-> opcodes, panicked |-> FALSE, wrote |-> FALSE]
        by_count(bits) ==
            LET bin == BinaryBitExtractor(body)
                st == process_by_test_count(opcodes, opcode_register,
                            TestExtractor(body), bits, bin.bits, bin.swaps)
            IN  [opcodes |-> st.opcodes, panicked |-> st.panicked,
                 wrote |-> st.opcodes # opcodes]
    IN  IF body.n < 2 THEN same
        ELSE IF body.prev.t = "expr_stmt" THEN
            LET e == body.prev.kids[1]
            IN  IF e.t = "cond" THEN by_count(BitExtractorOnPrev(body))
                ELSE IF e.t = "assign" /\ e.kids[1].t = "computed"
                        /\ e.kids[2].t = "computed"
                THEN [same EXCEPT
                        !.opcodes = Insert(@, opcode_register,
                            DefaultOpcode("SwapRegister",
                                          extract_bits_for_default_opcode(body))),
                        !.wrote = TRUE]
                ELSE same
        ELSE IF body.prev.t = "if" THEN by_count(BitExtractor(body))
        ELSE same

\* the tags a call on the right side writes, in the order of the code
\* (488-520): every one is inserted at the same index, the last one stays
CallTags(call_expr) ==
    LET callee == call_expr.kids[1]
        args == CallArgs(call_expr)
        literal_prop == callee.t = "computed" /\ callee.kids[2].t = "str"
        prop == IF literal_prop THEN callee.kids[2].s ELSE ""
        splice == IF args # <<>> /\ args[1].t \notin {"computed", "static"}
                  THEN <<"SplicePop">> ELSE <<>>
        push == IF literal_prop /\ prop = "push" THEN <<"ArrayPush">> ELSE <<>>
        named == IF literal_prop /\ callee.kids[1].t = "ident" THEN
                    CASE prop = "bind" ->
                            CASE Len(callee.kids[1].s) = 1 -> <<"Bind">>
                              [] Len(callee.kids[1].s) = 2 -> <<"RegisterVMFunction">>
                              [] OTHER -> <<>>
                      [] prop = "pop" -> <<"Pop">>
                      [] OTHER -> <<>>
                 ELSE <<>>
    IN  splice \o push \o named

\* the tags the final statement writes (483-591)
FinalTags(body) ==
    LET last == body.last
    IN  IF last.t = "expr_stmt" THEN
            LET e == last.kids[1]
            IN  IF e.t = "assign" THEN
                    LET left == e.kids[1]
                        right == e.kids[2]
                    IN  IF left.t # "computed" THEN <<>>
                        ELSE CASE right.t = "call" -> CallTags(right)
                          [] right.t = "object" -> <<"NewObject">>
                          [] right.t = "computed" ->
                                IF right.kids[1].t = "ident"
                                THEN <<"GetProperty">> ELSE <<"SetProperty">>
                          [] right.t = "new" -> <<"CallFuncNoContext">>
                          [] right.t = "array" -> <<"NewArray">>
                          [] right.t = "ident" ->
                                IF left.kids[2].t = "num" THEN <<"Jump">>
                                ELSE IF body.n >= 2 /\ IsAssignStmt(body.prev)
                                        /\ body.prev.kids[1].kids[1].t = "ident"
                                THEN <<"Move">> ELSE <<"SetProperty">>
                          [] right.t = "cond" -> <<"Call">>
                          [] OTHER -> <<"SetProperty">>
                ELSE IF e.t = "logical" THEN <<"JumpIf">>
                ELSE <<>>
        ELSE IF last.t = "throw" THEN <<"Throw">>
        ELSE <<>>

\* the inserts of the final statement: each tag with the default bits
RECURSIVE InsertTags(_, _, _, _)
InsertTags(opcodes, opcode_register, tags, bits) ==
    IF tags = <<>> THEN opcodes
    ELSE InsertTags(Insert(opcodes, opcode_register, DefaultOpcode(Head(tags), bits)),
                    opcode_register, Tail(tags), bits)

\* visit_function (363-595); node = [name, body]
OpLookupName(node) ==
    IF node.body.n > BigBody THEN VM_ENTRY ELSE node.name

\* mutant: the final statement is classified before the second-to-last one
OpVisitFunctionFinalFirst(p, node) ==
    LET body == node.body
        name == OpLookupName(node)
    IN  IF body.n = NoBody \/ name = NoName \/ body.n = 0 THEN p
        ELSE
        LET q == IF IsCreateFunction(body)
                 THEN [p EXCEPT !.create_function_ident = name] ELSE p
        IN  IF name \notin DOMAIN q.functions THEN q
            ELSE
            LET opcode_register == q.functions[name]
                r == [q EXCEPT !.functions = Remove(@, name)]
                claim(wrote) == [reg |-> opcode_register, name |-> name, wrote |-> wrote]
            IN  IF body.n > BigBody
                THEN [r EXCEPT !.opcodes = Insert(@, opcode_register,
                                                  DefaultOpcode("SetProperty", <<>>)),
                               !.claims = Append(@, claim(TRUE))]
                ELSE
                LET tags == FinalTags(body)
                    final == InsertTags(r.opcodes, opcode_register, tags,
                                        extract_bits_for_default_opcode(body))
                    second == SecondToLast(final, opcode_register, body)
                IN  IF second.panicked
                    THEN [r EXCEPT !.panicked = TRUE,
                                   !.claims = Append(@, claim(FALSE))]
                    ELSE [r EXCEPT
                            !.opcodes = second.opcodes,
                            !.claims = Append(@, claim(second.wrote \/ tags # <<>>))]

OpVisitFunction(p, node) ==
    LET body == node.body
        name == OpLookupName(node)
    IN  IF body.n = NoBody \/ name = NoName \/ body.n = 0 THEN p
        ELSE
        LET q == IF IsCreateFunction(body)
                 THEN [p EXCEPT !.create_function_ident = name] ELSE p
        IN  IF name \notin DOMAIN q.functions THEN q
            ELSE
            LET opcode_register == q.functions[name]
                r == [q EXCEPT !.functions = Remove(@, name)]
                claim(wrote) == [reg |-> opcode_register, name |-> name, wrote |-> wrote]
            IN  IF body.n > BigBody
                THEN [r EXCEPT !.opcodes = Insert(@, opcode_register,
                                                  DefaultOpcode("SetProperty", <<>>)),
                               !.claims = Append(@, claim(TRUE))]
                ELSE
                LET second == SecondToLast(r.opcodes, opcode_register, body)
                    tags == FinalTags(body)
                IN  IF second.panicked
                    THEN [r EXCEPT !.panicked = TRUE,
                                   !.claims = Append(@, claim(FALSE))]
                    ELSE [r EXCEPT
                            !.opcodes = InsertTags(second.opcodes, opcode_register, tags,
                                            extract_bits_for_default_opcode(body)),
                            !.claims = Append(@, claim(second.wrote \/ tags # <<>>))]

\* mutant: the name stays in the pool
OpVisitAssignmentKeep(p, left, right) ==
    IF left.t = "ident" /\ right.t = "call" /\ left.s \in DOMAIN p.functions
    THEN [p EXCEPT !.window_register = p.functions[left.s]]
    ELSE p

\* visit_assignment_expression (349-361)
OpVisitAssignment(p, left, right) ==
    IF left.t = "ident" /\ right.t = "call" /\ left.s \in DOMAIN p.functions
    THEN [p EXCEPT !.window_register = p.functions[left.s],
                   !.functions = Remove(@, left.s)]
    ELSE p

(***************************************************************************)
(* SpecOP: one traversal of OpcodeParser over the functions and the        *)
(* assignments of a program, from a function map FindFunctions can leave.  *)
(***************************************************************************)
MaxOpVisits == 2        \* nodes one traversal of the model visits

Range(base, n) == [k \in 1 .. n |-> base + k - 1]

Body(n, prev, last, tests, bits, cbits, bbits, swaps) ==
    [ n |-> n, prev |-> prev, last |-> last, tests |-> tests, bits |-> bits,
      cbits |-> cbits, bbits |-> bbits, swaps |-> swaps ]

Reg(e) == Computed(Ident("a"), e)       \* the register a[e]

Callees ==
    { Ident("h"), Static(Ident("b"), "push"), Computed(Ident("b"), Ident("k")),
      Computed(Ident("b"), Str("push")), Computed(This, Str("push")),
      Computed(Ident("b"), Str("bind")), Computed(Ident("bb"), Str("bind")),
      Computed(Ident("bbb"), Str("bind")),
      Computed(Ident("b"), Str("pop")), Computed(This, Str("pop")) }

ArgLists == { <<>>, <<Ident("c")>>, <<Reg(Num(1)), Ident("c")>> }

RightSides ==
    {Call(callee, args) : callee \in Callees, args \in ArgLists}
        \cup { ObjectLit, NewExpr, Array(<<>>), Ident("m"), Num(1),
               Computed(Ident("b"), Ident("k")), Computed(This, Ident("k")),
               Computed(Static(Ident("b"), "c"), Ident("k")),
               Cond(Ident("t"), Num(1), Num(2)) }

PushStmt == ExprStmt(Assign(Reg(Ident("n")),
                 Call(Computed(Ident("b"), Str("push")), <<Ident("c")>>)))

LastStmts ==
    {ExprStmt(Assign(Reg(Ident("n")), right)) : right \in RightSides}
        \cup { ExprStmt(Assign(Reg(Num(7)), Ident("m"))),
               ExprStmt(Assign(Ident("x"), Ident("m"))),
               ExprStmt(Logical("&&", Ident("t"), Call(Ident("h"), <<>>))),
               ExprStmt(Call(Ident("h"), <<>>)),
               Return(Computed(Static(Ident("b"), "c"),
                               Binary("+", Ident("k"), Num(1)))),
               Return(Computed(Ident("b"), Binary("+", Ident("k"), Num(1)))),
               ReturnVoid, IfStmt, Throw, OtherStmt }

CondStmt == ExprStmt(Cond(Ident("t"), Num(1), Num(2)))
SwapStmt == ExprStmt(Assign(Reg(Ident("i")), Reg(Ident("j"))))
MoveStmt == ExprStmt(Assign(Ident("m"), Reg(Ident("j"))))

DefaultBits == Range(21, 3)
ShortBits == {Range(21, 1), Range(21, 3), Range(21, 10)}
TestLists == {Range(100, n) : n \in {3, 4, 5, 12}} \cup {Range(3, 5)}
BinaryTestLists == {Range(100, 18), Range(100, 19)}
BinaryBits ==
    { [bits |-> <<>>, swaps |-> <<>>],
      [bits |-> Range(41, 4), swaps |-> <<TRUE>>],
      [bits |-> Range(41, 57), swaps |-> [k \in 1 .. 19 |-> k % 2 = 0]] }

JumpStmt == ExprStmt(Assign(Reg(Num(7)), Ident("m")))

TestedLast == {PushStmt, OtherStmt, JumpStmt}

\* final statements whose classification looks at the rest of the body
KeyLast ==
    { PushStmt, OtherStmt,
      ExprStmt(Assign(Reg(Ident("n")), Ident("m"))),
      ExprStmt(Assign(Reg(Num(7)), Ident("m"))),
      Return(Computed(Static(Ident("b"), "c"), Binary("+", Ident("k"), Num(1)))) }

Bodies ==
    \* no body, an empty body
    { Body(n, NoStmt, NoStmt, <<>>, <<>>, <<>>, <<>>, <<>>) : n \in {NoBody, 0} }
    \* a single statement
    \cup { Body(1, NoStmt, last, <<>>, DefaultBits, <<>>, <<>>, <<>>) :
             last \in KeyLast }
    \* a plain second-to-last statement
    \cup { Body(2, OtherStmt, last, <<>>, DefaultBits, <<>>, <<>>, <<>>) :
             last \in LastStmts }
    \cup { Body(2, prev, last, <<>>, DefaultBits, <<>>, <<>>, <<>>) :
             prev \in {SwapStmt, MoveStmt}, last \in KeyLast }
    \* a conditional expression before the final statement
    \cup { Body(2, CondStmt, last, tests, DefaultBits, cbits, <<>>, <<>>) :
             last \in TestedLast, tests \in TestLists, cbits \in ShortBits }
    \cup { Body(2, CondStmt, last, tests, DefaultBits, <<>>, bin.bits, bin.swaps) :
             last \in TestedLast, tests \in BinaryTestLists, bin \in BinaryBits }
    \* an if statement before the final statement
    \cup { Body(BigBody, IfStmt, last, tests, bits, <<>>, <<>>, <<>>) :
             last \in TestedLast, tests \in TestLists, bits \in ShortBits }
    \cup { Body(BigBody, IfStmt, last, tests, DefaultBits, <<>>, bin.bits, bin.swaps) :
             last \in TestedLast, tests \in BinaryTestLists, bin \in BinaryBits }
    \* the dispatcher
    \cup { Body(BigBody + 1, prev, last, <<>>, DefaultBits, <<>>, <<>>, <<>>) :
             prev \in {SwapStmt, IfStmt}, last \in {PushStmt, OtherStmt} }

OpFunctionNodes ==
    [name : {"f", "g"}, body : Bodies]
        \cup [name : {NoName}, body : {b \in Bodies : b.last \in {PushStmt, NoStmt}}]

OpAssignments ==
    [left : {Ident("f"), Ident("g")}, right : {Call(Ident("h"), <<>>), Ident("m")}]
        \cup [left : {Reg(Num(3))}, right : {Call(Ident("h"), <<>>)}]

\* the function maps the traversal starts from
OpFunctionMaps ==
    { "f" :> 3 @@ "g" :> 3, "f" :> 3 @@ "g" :> 4,
      "f" :> 3 @@ VM_ENTRY :> 3, "f" :> 3 @@ VM_ENTRY :> 4,
      "f" :> 3 @@ "g" :> 4 @@ VM_ENTRY :> 4 }

OpIdle == [OpNew(0, EmptyMap) EXCEPT !.visited = -1]

OpFunction ==
    /\ op.visited \in 0 .. MaxOpVisits - 1
    /\ ~op.panicked
    /\ \E node \in OpFunctionNodes :
          op' = [OpVisitFunction(op, node) EXCEPT !.visited = @ + 1]
    /\ UNCHANGED <<nb, ff, dis, sv, fo, hd, vf, fd, tc>>

OpAssignment ==
    /\ op.visited \in 0 .. MaxOpVisits - 1
    /\ ~op.panicked
    /\ \E a \in OpAssignments :
          op' = [OpVisitAssignment(op, a.left, a.right) EXCEPT !.visited = @ + 1]
    /\ UNCHANGED <<nb, ff, dis, sv, fo, hd, vf, fd, tc>>

(***************************************************************************)
(* DisassemblyOrchestrator: parse_script_interpreter (disassemble.rs).     *)
(* dis holds its locals: pc, the keys of the two maps its loops have still *)
(* to visit (a hash map is iterated in an order the code does not choose), *)
(* normalized_opcode_map, opcode_to_function_name, what FindOffset and     *)
(* ScriptVisitor found (key_expr, initial_vm: None when absent), and the   *)
(* result.                                                                 *)
(***************************************************************************)
DisIdle ==
    [ pc |-> "idle", todo |-> {}, normalized_opcode_map |-> EmptyMap,
      opcode_to_function_name |-> EmptyMap, key_expr |-> None,
      initial_vm |-> None, result |-> None ]

\* get_bits (38-49): every variant carries bits
get_bits(opcode) == opcode.bits

\* mutant: bits that normalize to nothing are a key as well
NormalizeEntryKeepEmpty(map, opcodes, k) ==
    Insert(map, normalize_bits(get_bits(opcodes[k])), k)

\* the body of the first loop (56-62), for the entry k of the opcode table
NormalizeEntry(map, opcodes, k) ==
    LET normalized == normalize_bits(get_bits(opcodes[k]))
    IN  IF normalized # <<>> THEN Insert(map, normalized, k) ELSE map

\* the index the fallback finds for idx (81-96), NoVal without match
FallbackIndex(map, index_bits, idx) ==
    IF idx \in DOMAIN index_bits
    THEN LET normalized_candidate == normalize_bits(index_bits[idx])
         IN  IF normalized_candidate \in DOMAIN map
             THEN map[normalized_candidate] ELSE NoVal
    ELSE NoVal

\* an index the second loop skips (66-72)
InvalidIndex(idx) == idx = MarkerIndex \/ idx = SeparatorIndex \/ idx > MaxIndex

\* mutant: a fallback match is recorded under the index of the function
MapFunctionOwnIndex(names, map, opcodes, functions, index_bits, function_name) ==
    LET idx == functions[function_name]
        matched_idx == FallbackIndex(map, index_bits, idx)
    IN  IF InvalidIndex(idx) THEN names
        ELSE IF idx \in DOMAIN opcodes THEN Insert(names, idx, function_name)
        ELSE IF matched_idx # NoVal THEN Insert(names, idx, function_name)
        ELSE names

\* the body of the second loop (65-101), for the function function_name
MapFunction(names, map, opcodes, functions, index_bits, function_name) ==
    LET idx == functions[function_name]
        matched_idx == FallbackIndex(map, index_bits, idx)
    IN  IF InvalidIndex(idx) THEN names
        ELSE IF idx \in DOMAIN opcodes THEN Insert(names, idx, function_name)
        ELSE IF matched_idx # NoVal THEN Insert(names, matched_idx, function_name)
        ELSE names

\* the visitors have run (25-33): the first loop starts
DisStart ==
    /\ dis.pc = "start"
    /\ dis' = [dis EXCEPT !.pc = "normalize", !.todo = DOMAIN op.opcodes]
    /\ UNCHANGED <<nb, ff, op, sv, fo, hd, vf, fd, tc>>

\* one iteration of the first loop (56-62)
DisNormalize ==
    /\ dis.pc = "normalize"
    /\ \E k \in dis.todo :
          dis' = [dis EXCEPT !.todo = @ \ {k},
                    !.normalized_opcode_map = NormalizeEntry(@, op.opcodes, k)]
    /\ UNCHANGED <<nb, ff, op, sv, fo, hd, vf, fd, tc>>

\* the first loop ends, the second starts
DisNormalized ==
    /\ dis.pc = "normalize"
    /\ dis.todo = {}
    /\ dis' = [dis EXCEPT !.pc = "map", !.todo = DOMAIN ff.functions]
    /\ UNCHANGED <<nb, ff, op, sv, fo, hd, vf, fd, tc>>

\* one iteration of the second loop (65-101)
DisMapFunction ==
    /\ dis.pc = "map"
    /\ \E function_name \in dis.todo :
          dis' = [dis EXCEPT !.todo = @ \ {function_name},
                    !.opcode_to_function_name =
                        MapFunction(@, dis.normalized_opcode_map, op.opcodes,
                                    ff.functions, ff.index_bits, function_name)]
    /\ UNCHANGED <<nb, ff, op, sv, fo, hd, vf, fd, tc>>

\* the result (109-124), from what ScriptVisitor found: without initial
\* payload the error is returned; without key expression `expect` panics;
\* otherwise the result is that of RecursiveDisassembler::new, whose code is
\* not part of the sources: it returns either Ok or an error.  The key byte
\* is passed as it is: FindFunctions::key is 0 until a key is captured.
ResultOf(initial_vm, key_expr, new_ok) ==
    IF initial_vm = None THEN "err_initial_vm"
    ELSE IF key_expr = None THEN "panic_key_expr"
    ELSE IF new_ok THEN "ok" ELSE "err_disassembler"

DisFinish ==
    /\ dis.pc = "map"
    /\ dis.todo = {}
    /\ \E initial_vm \in {None, "payload"}, new_ok \in BOOLEAN :
          dis' = [dis EXCEPT !.pc = "done", !.initial_vm = initial_vm,
                    !.result = ResultOf(initial_vm, dis.key_expr, new_ok)]
    /\ UNCHANGED <<nb, ff, op, sv, fo, hd, vf, fd, tc>>

(***************************************************************************)
(* SpecDis: parse_script_interpreter after its three first visitors, from  *)
(* results they can leave.                                                 *)
(***************************************************************************)
Maps(keys, values) == UNION {[ks -> values] : ks \in SUBSET keys}

DisOpcodeTables ==
    { [k \in DOMAIN m |-> DefaultOpcode("SetProperty", m[k])] :
        m \in Maps({3, 4}, {<<127>>, <<5>>, <<195, 188, 5>>, <<6>>}) }

DisFunctionMaps == Maps({"f", "g"}, {3, 8, 9})

DisIndexBits == Maps({8, 9}, {<<5>>, <<127, 5>>, <<127>>})

DisInit ==
    /\ \E functions \in DisFunctionMaps, index_bits \in DisIndexBits :
          ff = [FfIdle EXCEPT !.functions = functions, !.index_bits = index_bits]
    /\ \E key_expr \in {None, "expr"} :
          dis = [DisIdle EXCEPT !.pc = "start", !.key_expr = key_expr]
    /\ \E opcodes \in DisOpcodeTables :
          op = [OpIdle EXCEPT !.opcodes = opcodes]

(***************************************************************************)
(* ScriptVisitor::visit_call_expression (vm.rs 14-59).  A string literal   *)
(* is named by its text; StrLen gives the length str::len returns for it.  *)
(* compressor_charset and init_argument, which only visit_string_literal   *)
(* writes, are left out.                                                   *)
(***************************************************************************)
MaxCalls == 4           \* call expressions one traversal of the model visits

InitialMin == 300       \* a longer first argument is a payload
MainMin == 1000         \* from this length on it is the main payload

StrLen ==
    ("s0" :> 0) @@ ("s299" :> 299) @@ ("s300" :> 300) @@ ("s301" :> 301)
        @@ ("t301" :> 301) @@ ("s999" :> 999) @@ ("s1000" :> 1000)
        @@ ("t1000" :> 1000) @@ ("s1001" :> 1001)

\* an argument: a string literal, another expression, a spread element
Argument(t, text) == [t |-> t, text |-> text]
StrArg(text) == Argument("str", text)
OtherArg == Argument("other", "")
SpreadArg == Argument("spread", "")

\* a call expression: callee is "ident" for an identifier reference
CallExpr(callee, arguments) == [callee |-> callee, arguments |-> arguments]
NoCall == CallExpr("none", <<>>)

SvInit == [initial_vm |-> None, main_vm |-> None, visited |-> 0, last |-> NoCall]
SvIdle == [SvInit EXCEPT !.visited = -1]

\* mutant: every string of the initial band is recorded
visit_call_expression_last_wins(s, it) ==
    IF it.callee # "ident" \/ it.arguments = <<>> \/ it.arguments[1].t # "str"
    THEN s
    ELSE LET first_arg_str == it.arguments[1].text
             len == StrLen[first_arg_str]
         IN  IF len > InitialMin
             THEN IF len >= MainMin THEN [s EXCEPT !.main_vm = first_arg_str]
                  ELSE [s EXCEPT !.initial_vm = first_arg_str]
             ELSE s

visit_call_expression(s, it) ==
    IF it.callee # "ident" THEN s
    ELSE IF it.arguments = <<>> THEN s
    ELSE IF it.arguments[1].t # "str" THEN s
    ELSE LET first_arg_str == it.arguments[1].text
             len == StrLen[first_arg_str]
         IN  IF len > InitialMin
             THEN IF len >= MainMin THEN [s EXCEPT !.main_vm = first_arg_str]
                  ELSE IF s.initial_vm = None
                       THEN [s EXCEPT !.initial_vm = first_arg_str]
                       ELSE s
             ELSE s

ArgumentLists ==
    {<<>>, <<OtherArg, StrArg("s301")>>, <<SpreadArg>>}
        \cup {<<StrArg(text)>> : text \in DOMAIN StrLen}
        \cup {<<StrArg(text), OtherArg>> : text \in DOMAIN StrLen}

CallExprs == {CallExpr(callee, arguments) :
                callee \in {"ident", "member"}, arguments \in ArgumentLists}

VisitCallExpression ==
    /\ sv.visited \in 0 .. MaxCalls - 1
    /\ \E it \in CallExprs :
          sv' = [visit_call_expression(sv, it) EXCEPT !.visited = @ + 1,
                                                      !.last = it]
    /\ UNCHANGED <<nb, ff, op, dis, fo, hd, vf, fd, tc>>

(***************************************************************************)
(* FindOffset (offset.rs 50-123).  fo holds its fields in_for, key_expr    *)
(* (NoExpr when None) and offset, and where the traversal is: depth is the *)
(* number of for statements whose walk_for_statement has not returned yet, *)
(* last the node visited last.                                             *)
(***************************************************************************)
MaxNodes == 3           \* nodes one traversal of the model visits
MaxDepth == 2           \* for statements nested in each other

KeyMask == 255          \* the byte mask of the key expression

NoExpr == Node("none", "", 0, <<>>)
ForStmt == Node("for", "", 0, <<>>)

\* a numeric literal with a fraction: v + 1/2
NumHalf(v) == Node("num", "half", v, <<>>)

\* Rust `f64 as u32` of a numeric literal: truncates, saturating at 0
F64AsU32(num) == IF num.n < 0 THEN 0 ELSE num.n

\* Rust `i64 as i16`: the low 16 bits, two's complement
I64AsI16(x) == ((x + 32768) % 65536) - 32768

\* FindOffset::new
FoNew ==
    [ in_for |-> FALSE, key_expr |-> NoExpr, offset |-> 0,
      visited |-> 0, depth |-> 0, last |-> NoExpr ]
FoIdle == [FoNew EXCEPT !.visited = -1]

\* visit_for_statement before and after walk_for_statement (70, 72)
FoEnterFor(f) == [f EXCEPT !.in_for = TRUE, !.depth = @ + 1]
FoLeaveFor(f) == [f EXCEPT !.in_for = FALSE, !.depth = @ - 1]

\* visit_assignment_expression (75-93); right is node.right
FoVisitAssignment(f, right) ==
    IF /\ f.in_for
       /\ right.t = "binary" /\ right.s = "&"
       /\ right.kids[2].t = "num"
       /\ F64AsU32(right.kids[2]) = KeyMask
    THEN [f EXCEPT !.key_expr = right]
    ELSE f

\* visit_binary_expression (95-122)
FoVisitBinary(f, node) ==
    LET op_ == node.s
        left == node.kids[1]
        right == node.kids[2]
        found == \/ left.t = "num" /\ right.t = "call"
                 \/ left.t = "call" /\ right.t = "num"
        lit == IF left.t = "num" /\ right.t = "call" THEN left.n
               ELSE IF left.t = "call" /\ right.t = "num" THEN right.n
               ELSE 0
    IN  IF (op_ = "+" \/ op_ = "^") /\ found /\ lit # 0
        THEN [f EXCEPT !.offset = I64AsI16(lit)]
        ELSE f

\* the nodes of the traversals
FoRights ==
    { Binary("&", Ident("k"), Num(255)), Binary("&", Ident("j"), Num(255)),
      Binary("&", Ident("k"), NumHalf(255)), Binary("&", Ident("k"), Num(254)),
      Binary("&", Num(255), Ident("k")), Binary("|", Ident("k"), Num(255)),
      Ident("k") }

FoOperands == {Num(0), Num(1), Num(2), Num(40000), Num(65536), Call(Ident("h"), <<>>), Ident("k")}

FoBinaries ==
    {Binary(o, l, r) : o \in {"+", "^", "-"}, l \in FoOperands, r \in FoOperands}

EnterFor ==
    /\ fo.visited \in 0 .. MaxNodes - 1
    /\ fo.depth < MaxDepth
    /\ fo' = [FoEnterFor(fo) EXCEPT !.visited = @ + 1, !.last = ForStmt]
    /\ UNCHANGED <<nb, ff, op, dis, sv, hd, vf, fd, tc>>

LeaveFor ==
    /\ fo.depth > 0
    /\ fo' = [FoLeaveFor(fo) EXCEPT !.last = ForStmt]
    /\ UNCHANGED <<nb, ff, op, dis, sv, hd, vf, fd, tc>>

FoAssignment ==
    /\ fo.visited \in 0 .. MaxNodes - 1
    /\ \E right \in FoRights :
          fo' = [FoVisitAssignment(fo, right) EXCEPT !.visited = @ + 1, !.last = right]
    /\ UNCHANGED <<nb, ff, op, dis, sv, hd, vf, fd, tc>>

FoBinary ==
    /\ fo.visited \in 0 .. MaxNodes - 1
    /\ \E node \in FoBinaries :
          fo' = [FoVisitBinary(fo, node) EXCEPT !.visited = @ + 1, !.last = node]
    /\ UNCHANGED <<nb, ff, op, dis, sv, hd, vf, fd, tc>>

(***************************************************************************)
(* SpecHd: process_by_test_count on its own (magic_bits.rs 322-345), from  *)
(* an opcode table, the index of the function, and what the extractors     *)
(* hold: tests, bits, binary bits and swaps.  hd keeps these inputs and,   *)
(* once the call is made (pc = "out"), out: the table, what is left in     *)
(* the extractors, and whether the call panicked.                          *)
(***************************************************************************)
MaxTests == 20          \* collected tests
MaxBits == 11           \* extracted bits

HdNoOut ==
    [ opcodes |-> EmptyMap, tests |-> <<>>, bits |-> <<>>, swaps |-> <<>>,
      lit |-> EmptyMap, panicked |-> FALSE ]

HdIdle ==
    [ pc |-> "idle", opcodes |-> EmptyMap, opcode_register |-> 0, tests |-> <<>>,
      bits |-> <<>>, bbits |-> <<>>, swaps |-> <<>>, out |-> HdNoOut ]

\* test lists: distinct values, and lists in which a value comes twice
HdTests ==
    {Range(100, n) : n \in 0 .. MaxTests}
        \cup { <<100, 101, 100, 103, 104>>, <<100, 100, 100, 100, 100>>,
               [k \in 1 .. 19 |-> IF k = 19 THEN 100 ELSE 99 + k],
               [k \in 1 .. 18 |-> IF k = 4 THEN 101 ELSE 99 + k] }

HdBits == {Range(21, n) : n \in 0 .. MaxBits}

HdBinary ==
    { [bits |-> <<>>, swaps |-> <<>>],
      [bits |-> Range(41, 4), swaps |-> <<TRUE>>],
      [bits |-> Range(41, 57), swaps |-> [k \in 1 .. 19 |-> k % 2 = 0]],
      [bits |-> Range(41, 60), swaps |-> [k \in 1 .. 20 |-> k % 3 = 0]] }

HdTables ==
    { EmptyMap,
      Insert(Insert(EmptyMap, 9, DefaultOpcode("Jump", <<1>>)),
             100, DefaultOpcode("Throw", <<2>>)) }

HdProcess ==
    /\ hd.pc = "in"
    /\ hd' = [hd EXCEPT !.pc = "out",
                        !.out = process_by_test_count(hd.opcodes, hd.opcode_register,
                                    hd.tests, hd.bits, hd.bbits, hd.swaps)]
    /\ UNCHANGED <<nb, ff, op, dis, sv, fo, vf, fd, tc>>

(***************************************************************************)
(* SpecVf: OpcodeParser over one assignment and then one function, from a  *)
(* function map FindFunctions can leave.  vf keeps the visitor before the  *)
(* two nodes (before), after the assignment a (mid) and after the function *)
(* node (after).                                                           *)
(***************************************************************************)
VfIdle ==
    [ pc |-> "idle", a |-> [left |-> This, right |-> This],
      node |-> [name |-> NoName, body |-> Body(NoBody, NoStmt, NoStmt, <<>>, <<>>, <<>>, <<>>, <<>>)],
      before |-> OpIdle, mid |-> OpIdle, after |-> OpIdle ]

VfAssignment ==
    /\ vf.pc = "in"
    /\ vf' = [vf EXCEPT !.pc = "assigned",
                        !.mid = OpVisitAssignment(vf.before, vf.a.left, vf.a.right)]
    /\ UNCHANGED <<nb, ff, op, dis, sv, fo, hd, fd, tc>>

VfFunction ==
    /\ vf.pc = "assigned"
    /\ vf' = [vf EXCEPT !.pc = "out", !.after = OpVisitFunction(vf.mid, vf.node)]
    /\ UNCHANGED <<nb, ff, op, dis, sv, fo, hd, fd, tc>>

(***************************************************************************)
(* SpecFd: FindFunctions over one node.  Either the state a first visit    *)
(* left (before) visits the assignment a, giving after; or resolve_expr    *)
(* folds the expression expr of numeric literals, giving val.              *)
(***************************************************************************)
FdIdle ==
    [ pc |-> "idle", mode |-> "none", before |-> FfInit,
      a |-> [left |-> This, right |-> This], after |-> FfInit,
      expr |-> This, val |-> VNone ]

\* the states of the visitor after at most one visit
FdBefores ==
    {FfInit}
        \cup {FfVisitFunction(FfInit, node) : node \in FunctionNodes}
        \cup {FfVisitVariableDeclaration(FfInit, decl) : decl \in Declarations}
        \cup {FfVisitAssignment(FfInit, a.left, a.right) : a \in Assignments}

FdNumbers == {Num(0), Num(1), Num(5), Num(10), Num(32), Num(255)}

FdOperands == FdNumbers \cup {Unary("-", Num(1)), Unary("-", Num(5))}

FdExprs ==
    {Binary(o, l, r) : o \in {"+", "-", "*", "%", "&", "|", "^", "<<", ">>"},
                       l \in FdOperands, r \in FdNumbers}
        \cup {Unary(o, e) : o \in {"-", "+", "~", "!"}, e \in FdNumbers}
        \cup {Logical(o, l, r) : o \in {"||", "&&", "??"},
                                  l \in FdOperands, r \in FdNumbers}
        \cup {Cond(c, l, r) : c \in FdOperands, l \in {Num(1), Num(5)},
                               r \in {Num(0), Num(10)}}
        \cup { Binary("+", Num(2), Binary("*", Num(3), Num(4))),
               Unary("!", Binary("%", Num(5), Num(0))),
               Logical("||", Binary("%", Num(5), Num(0)), Num(10)),
               Cond(Binary("-", Num(5), Num(5)), Num(1), Paren(Num(10))) }

FdVisitAssignment ==
    /\ fd.pc = "in" /\ fd.mode = "visit"
    /\ fd' = [fd EXCEPT !.pc = "out",
                        !.after = FfVisitAssignment(fd.before, fd.a.left, fd.a.right)]
    /\ UNCHANGED <<nb, ff, op, dis, sv, fo, hd, vf, tc>>

FdResolveExpr ==
    /\ fd.pc = "in" /\ fd.mode = "fold"
    /\ fd' = [fd EXCEPT !.pc = "out", !.val = resolve_expr(EmptyMap, fd.expr)]
    /\ UNCHANGED <<nb, ff, op, dis, sv, fo, hd, vf, tc>>

(***************************************************************************)
(* TaskClient::initialize_solve (solver/task_client.rs 211-359) with the   *)
(* call of get_orchestrate (361-385).  The method is followed from await   *)
(* to await: the request for the page is sent, its response arrives, the   *)
(* orchestrate request is sent, its response arrives.  Strings are strings *)
(* of the model; the servers choose the responses.                         *)
(*   solve_url   the field of the client, None before the first solve      *)
(*   url         the local solve_url of the running call                   *)
(*   widget_id   the widget id generate_solve_url put into url             *)
(*   header      the cf-ray header of the page response, None when absent  *)
(*   html        what from_html found in the page: c_ray, zone, ch         *)
(*   challenge   the options the call is filling                           *)
(*   referer     the Referer header of the orchestrate request             *)
(*   result      "none" while running, then "ok", "err" or "panic"         *)
(***************************************************************************)
DefaultZone == "challenges.cloudflare.com"
RayPrefix == 8          \* &challenge.c_ray[..8] (344)

Challenge(c_ray, zone, ch) == [c_ray |-> c_ray, zone |-> zone, ch |-> ch]

\* CloudflareChallengeOptions::default(), on the three fields the call reads
DefaultChallenge == Challenge("", "", "")

\* generate_solve_url (725-737), for the branch "b" and the generated widget id
generate_solve_url(widget_id, site_key) ==
    "https://challenges.cloudflare.com/cdn-cgi/challenge-platform/h/b/turnstile/f/ov2/av0/rch/"
        \o widget_id \o "/" \o site_key \o "/auto/fbE/new/normal?lang=auto"

\* s.split('-').next().unwrap_or(s): the text before the first dash (250)
RECURSIVE FirstSegment(_, _)
FirstSegment(str, i) ==
    IF i > Len(str) THEN str
    ELSE IF SubSeq(str, i, i) = "-" THEN SubSeq(str, 1, i - 1)
    ELSE FirstSegment(str, i + 1)

cf_ray_header(header) == IF header = None THEN None ELSE FirstSegment(header, 1)

\* the call returns the error "cRay not found in header or HTML" (293-299)
TcNotFound(html, header) == html.c_ray = "" /\ cf_ray_header(header) = None

\* the options after the page is parsed (278-305): the cRay of the header
\* when the HTML has none, the default zone when the HTML has none
TcFill(html, header) ==
    [html EXCEPT !.c_ray = IF html.c_ray = "" THEN cf_ray_header(header) ELSE @,
                 !.zone = IF html.zone = "" THEN DefaultZone ELSE @]

TcNew(solve_url) ==
    [ pc |-> "new", solve_url |-> solve_url, url |-> "", widget_id |-> "",
      header |-> None, html |-> DefaultChallenge, challenge |-> DefaultChallenge,
      referer |-> None, result |-> "none" ]

TcIdle == [TcNew(None) EXCEPT !.pc = "idle"]

TcErr(t) == [t EXCEPT !.pc = "done", !.result = "err"]
TcPanic(t) == [t EXCEPT !.pc = "done", !.result = "panic"]

\* the end of the call (333-358): a ch still empty is derived from the
\* widget id, which the pattern /rch/([a-z0-9]{5})/ always finds in the
\* generated URL, and the first 8 bytes of the cRay; slicing a shorter cRay
\* panics.  Then solve_url is set and the call returns Ok.
TcFinish(t, challenge) ==
    IF challenge.ch # "" THEN
        [t EXCEPT !.pc = "done", !.result = "ok", !.challenge = challenge,
                  !.solve_url = t.url]
    ELSE IF Len(challenge.c_ray) < RayPrefix THEN TcPanic(t)
    ELSE [t EXCEPT !.pc = "done", !.result = "ok", !.solve_url = t.url,
             !.challenge = [challenge EXCEPT
                 !.ch = t.widget_id \o "-" \o SubSeq(challenge.c_ray, 1, RayPrefix)]]

\* the response of the page is there (232-331), up to the next await
TcPage(t, header, html) ==
    LET challenge == TcFill(html, header)
        u == [t EXCEPT !.header = header, !.html = html]
    IN  IF TcNotFound(html, header) THEN TcErr(u)
        ELSE IF challenge.ch = ""
             THEN [u EXCEPT !.pc = "orchestrating", !.challenge = challenge,
                            !.solve_url = t.url, !.referer = t.url]
        ELSE TcFinish(u, challenge)

\* the orchestrate response is there (311-331); ch is what
\* extract_from_orchestrate found in it, "" for nothing
TcOrchestrate(t, ch) ==
    TcFinish(t, IF ch # "" THEN [t.challenge EXCEPT !.ch = ch] ELSE t.challenge)

WidgetIds == {"k3x9a", "abcde"}
SiteKey == "0x4AAAAAAAB"
OldUrl == generate_solve_url("zzzzz", SiteKey)

TcHeaders ==
    {None, "", "-LHR", "8f3c-LHR", "8f3c2a1b", "8f3c2a1b9d7e6f50-LHR"}

TcHtmls ==
    [ c_ray : {"", "9a8b7c6d5e4f3a2b"},
      zone : {"", "challenges.cloudflare.com"},
      ch : {"", ".QrCm8kLw0xYz"} ]

\* initialize_solve is called: the URL is generated and the page requested
TcStart ==
    /\ tc.pc = "new"
    /\ \E widget_id \in WidgetIds :
          tc' = [tc EXCEPT !.pc = "fetching", !.widget_id = widget_id,
                           !.url = generate_solve_url(widget_id, SiteKey)]
    /\ UNCHANGED <<nb, ff, op, dis, sv, fo, hd, vf, fd>>

\* the request fails, the status is no success, or the body cannot be read,
\* decompressed or decoded (231, 235-241, 258-264): the call returns Err
TcPageFails ==
    /\ tc.pc = "fetching"
    /\ tc' = TcErr(tc)
    /\ UNCHANGED <<nb, ff, op, dis, sv, fo, hd, vf, fd>>

TcPageArrives ==
    /\ tc.pc = "fetching"
    /\ \E header \in TcHeaders, html \in TcHtmls : tc' = TcPage(tc, header, html)
    /\ UNCHANGED <<nb, ff, op, dis, sv, fo, hd, vf, fd>>

\* get_orchestrate returns Err (328-330): the call goes on without ch
TcOrchestrateFails ==
    /\ tc.pc = "orchestrating"
    /\ tc' = TcOrchestrate(tc, "")
    /\ UNCHANGED <<nb, ff, op, dis, sv, fo, hd, vf, fd>>

\* decompress_body(..).unwrap() in get_orchestrate panics
TcOrchestratePanics ==
    /\ tc.pc = "orchestrating"
    /\ tc' = TcPanic(tc)
    /\ UNCHANGED <<nb, ff, op, dis, sv, fo, hd, vf, fd>>

TcOrchestrateArrives ==
    /\ tc.pc = "orchestrating"
    /\ \E ch \in {"", "Zm9vYmFyYmF6cXV4MTIzNDU2"} : tc' = TcOrchestrate(tc, ch)
    /\ UNCHANGED <<nb, ff, op, dis, sv, fo, hd, vf, fd>>

(***************************************************************************)
(* The specifications                                                      *)
(***************************************************************************)
RestIdle == sv = SvIdle /\ fo = FoIdle /\ hd = HdIdle
LaterIdle == vf = VfIdle /\ fd = FdIdle /\ tc = TcIdle

InitNorm ==
    /\ nb \in [pc : {"in"}, raw : NormInputs, once : {<<>>}, twice : {<<>>}]
    /\ ff = FfIdle /\ op = OpIdle /\ dis = DisIdle /\ RestIdle /\ LaterIdle
NextNorm == NormalizeOnce \/ NormalizeTwice
SpecNorm == InitNorm /\ [][NextNorm]_vars

InitFF ==
    /\ nb = NbIdle /\ ff = FfInit /\ op = OpIdle /\ dis = DisIdle
    /\ RestIdle /\ LaterIdle
NextFF ==
    \/ VisitFunction \/ LeaveFunction
    \/ VisitVariableDeclaration \/ VisitAssignmentExpression
SpecFF == InitFF /\ [][NextFF]_vars

InitOP ==
    /\ nb = NbIdle /\ ff = FfIdle /\ dis = DisIdle /\ RestIdle /\ LaterIdle
    /\ \E functions \in OpFunctionMaps : op = OpNew(9, functions)
NextOP == OpFunction \/ OpAssignment
SpecOP == InitOP /\ [][NextOP]_vars

InitDis == nb = NbIdle /\ DisInit /\ RestIdle /\ LaterIdle
NextDis == DisStart \/ DisNormalize \/ DisNormalized \/ DisMapFunction \/ DisFinish
SpecDis == InitDis /\ [][NextDis]_vars

FirstIdle == nb = NbIdle /\ ff = FfIdle /\ op = OpIdle /\ dis = DisIdle

InitSV == FirstIdle /\ sv = SvInit /\ fo = FoIdle /\ hd = HdIdle /\ LaterIdle
NextSV == VisitCallExpression
SpecSV == InitSV /\ [][NextSV]_vars

InitFO == FirstIdle /\ sv = SvIdle /\ fo = FoNew /\ hd = HdIdle /\ LaterIdle
NextFO == EnterFor \/ LeaveFor \/ FoAssignment \/ FoBinary
SpecFO == InitFO /\ [][NextFO]_vars

InitHd ==
    /\ FirstIdle /\ sv = SvIdle /\ fo = FoIdle /\ LaterIdle
    /\ \E opcodes \in HdTables, opcode_register \in {3, 100}, tests \in HdTests,
          bits \in HdBits, bin \in HdBinary :
          hd = [ pc |-> "in", opcodes |-> opcodes, opcode_register |-> opcode_register,
                 tests |-> tests, bits |-> bits, bbits |-> bin.bits,
                 swaps |-> bin.swaps, out |-> HdNoOut ]
NextHd == HdProcess
SpecHd == InitHd /\ [][NextHd]_vars

InitVf ==
    /\ FirstIdle /\ RestIdle /\ fd = FdIdle /\ tc = TcIdle
    /\ \E functions \in OpFunctionMaps, a \in OpAssignments, node \in OpFunctionNodes :
          vf = [VfIdle EXCEPT !.pc = "in", !.a = a, !.node = node,
                              !.before = OpNew(9, functions)]
NextVf == VfAssignment \/ VfFunction
SpecVf == InitVf /\ [][NextVf]_vars

InitFd ==
    /\ FirstIdle /\ RestIdle /\ vf = VfIdle /\ tc = TcIdle
    /\ \/ \E before \in FdBefores, a \in Assignments :
             fd = [FdIdle EXCEPT !.pc = "in", !.mode = "visit",
                                 !.before = before, !.a = a]
       \/ \E expr \in FdExprs :
             fd = [FdIdle EXCEPT !.pc = "in", !.mode = "fold", !.expr = expr]
NextFd == FdVisitAssignment \/ FdResolveExpr
SpecFd == InitFd /\ [][NextFd]_vars

InitTC ==
    /\ FirstIdle /\ RestIdle /\ vf = VfIdle /\ fd = FdIdle
    /\ \E solve_url \in {None, OldUrl} : tc = TcNew(solve_url)
NextTC ==
    \/ TcStart \/ TcPageFails \/ TcPageArrives
    \/ TcOrchestrateFails \/ TcOrchestratePanics \/ TcOrchestrateArrives
SpecTC == InitTC /\ [][NextTC]_vars

(***************************************************************************)
(* normalize_bits: claims C1 and C2, under SpecNorm                        *)
(***************************************************************************)
\* C1: normalize_bits is idempotent: normalizing the result of normalize_bits
\* once more gives the same sequence, for every input sequence.
C1_Idempotent == nb.pc = "twice" => nb.twice = nb.once

\* the element at i stays: it is no separator, and neither the 195 nor the
\* 188 of a pair that is adjacent in the input
KeptAt(raw, i) ==
    /\ raw[i] # Separator
    /\ ~(raw[i] = MarkerHi /\ i < Len(raw) /\ raw[i + 1] = MarkerLo)
    /\ ~(raw[i] = MarkerLo /\ i > 1 /\ raw[i - 1] = MarkerHi)

RECURSIVE KeptFrom(_, _)
KeptFrom(raw, i) ==
    IF i > Len(raw) THEN <<>>
    ELSE (IF KeptAt(raw, i) THEN <<raw[i]>> ELSE <<>>) \o KeptFrom(raw, i + 1)

\* C2: normalize_bits returns its input without the 127s and without the
\* adjacent (195, 188) pairs, every other element (a 195 without a following
\* 188 too) kept in its place; so [195,188,195,188,5,127,6] gives [5,6] and
\* [195,7] gives [195,7].
C2_Strips ==
    nb.pc # "in" =>
        /\ nb.once = KeptFrom(nb.raw, 1)
        /\ nb.raw = <<195, 188, 195, 188, 5, 127, 6>> => nb.once = <<5, 6>>
        /\ nb.raw = <<195, 7>> => nb.once = <<195, 7>>

\* C2 happens: the spec's example was normalized to [5, 6]
C2_Witness ==
    /\ nb.pc = "once"
    /\ nb.raw = <<195, 188, 195, 188, 5, 127, 6>>
    /\ nb.once = <<5, 6>>

(***************************************************************************)
(* FindFunctions: claims C3, C4, C12 and C17, under SpecFF                 *)
(***************************************************************************)
\* C3: a function whose body has more than 50 statements is the dispatcher,
\* whatever its declared name and also when it has none: once it is visited,
\* the effective name and function_with_opcodes are the sentinel VM_ENTRY;
\* the visit of a function of 50 statements or fewer (or without body)
\* leaves function_with_opcodes as it was.
C3_Dispatcher ==
    [][ ff'.last.kind = "function" =>
          /\ ff'.last.n > BigBody =>
                /\ ff'.last_function_name = VM_ENTRY
                /\ ff'.function_with_opcodes = VM_ENTRY
          /\ ff'.last.n <= BigBody =>
                ff'.function_with_opcodes = ff.function_with_opcodes ]_vars

\* C3 happens: a function declared as f, of 51 statements, was visited
C3_Witness ==
    /\ ff.last = Visit("function", "f", BigBody + 1, NoVal)
    /\ ff.function_with_opcodes = VM_ENTRY

\* an index that is a marker, the separator, or too large
NoiseIndex(value) == value \in {195, 127} \/ value > 1000

\* C4: after any sequence of visits no function name is mapped to the index
\* 195, 127 or an index above 1000, and the index of the constants table is
\* none of these: the visit of an assignment whose target resolves to such an
\* index changes neither the functions map nor the constants index.
C4_NoNoiseIndex ==
    /\ [](/\ \A name \in DOMAIN ff.functions : ~NoiseIndex(ff.functions[name])
          /\ ~NoiseIndex(ff.constants))
    /\ [][ (ff'.visited # ff.visited /\ ff'.last.kind = "assignment"
              /\ NoiseIndex(ff'.last.index)) =>
           (ff'.functions = ff.functions /\ ff'.constants = ff.constants) ]_vars

\* C4 happens: with a function already mapped, an assignment to an index
\* above 1000 was visited
C4_Witness ==
    /\ ff.last.kind = "assignment"
    /\ ff.last.index > MaxIndex
    /\ DOMAIN ff.functions # {}

\* the identifiers an expression refers to
RECURSIVE References(_)
References(expr) ==
    IF expr.t = "ident" THEN {expr.s}
    ELSE UNION {References(expr.kids[k]) : k \in DOMAIN expr.kids}

\* the state the visit of the assignment a leaves
AssignmentVisited(f, a) ==
    [FfVisitAssignment(f, a.left, a.right) EXCEPT !.visited = @ + 1,
        !.last = Visit("assignment", NoName, NoBody,
                       FfTargetIndex(f.variables, a.left))]

\* C12: an expression that refers to an identifier absent from the variable
\* table folds to no value, also a logical expression such as x || 5 and
\* x ?? 5 with x unknown: the visit of an assignment of such an expression to
\* an identifier leaves the variable table as it was.
C12_UnknownUnresolved ==
    [][ \A a \in Assignments :
          (/\ a.left.t = "ident"
           /\ References(a.right) \ DOMAIN ff.variables # {}
           /\ ff' = AssignmentVisited(ff, a)) =>
          (/\ ~IsSome(resolve_expr(ff.variables, a.right))
           /\ ff'.variables = ff.variables) ]_vars

(***************************************************************************)
(* FindFunctions over one assignment: claims C24 and C25, under SpecFd     *)
(***************************************************************************)
\* can the element of an array literal be captured as a raw bit: a numeric
\* literal, a string that parses as u16, a unary operator on a numeric literal
Capturable(el) ==
    \/ el.t = "num"
    \/ el.t = "str" /\ el.s = "digits" /\ el.n <= 65535
    \/ el.t = "unary" /\ el.kids[1].t = "num"

CapturableCount(els) == Cardinality({k \in DOMAIN els : Capturable(els[k])})

\* C24: the visit of an assignment whose target resolves to an index i and
\* whose right side is an array literal with a capturable element stores the
\* raw bits of the literal for i, one per capturable element, in place of
\* what was stored for i; when i is 195, 127 or above 1000 it does so as
\* well, and records no function, no constants index and no key byte.
C24_RawBitsAnyIndex ==
    (fd.pc = "out" /\ fd.mode = "visit") =>
        LET i == FfTargetIndex(fd.before.variables, fd.a.left)
            els == fd.a.right.kids
        IN  (/\ i # NoVal
             /\ fd.a.right.t = "array"
             /\ CapturableCount(els) > 0) =>
            (/\ i \in DOMAIN fd.after.index_bits
             /\ fd.after.index_bits[i] = RawBits(els, 1)
             /\ Len(fd.after.index_bits[i]) = CapturableCount(els)
             /\ \A j \in DOMAIN fd.before.index_bits \ {i} :
                   /\ j \in DOMAIN fd.after.index_bits
                   /\ fd.after.index_bits[j] = fd.before.index_bits[j]
             /\ NoiseIndex(i) =>
                   /\ fd.after.functions = fd.before.functions
                   /\ fd.after.constants = fd.before.constants
                   /\ fd.after.key = fd.before.key)

\* C24 happens: [1, 2] was assigned at the index 127, where an earlier
\* assignment had put other bits, and nothing is mapped
C24_Witness ==
    /\ fd.pc = "out" /\ fd.mode = "visit"
    /\ fd.before.index_bits = (127 :> <<195, 188, 9, 42>>)
    /\ fd.after.index_bits = (127 :> <<1, 2>>)
    /\ fd.after.functions = EmptyMap /\ fd.after.constants = 0 /\ fd.after.key = 0

\* C25: the visit of an assignment whose target resolves to an accepted
\* index i and whose right side is an array literal makes i the index of
\* the constants table; the key byte becomes the 4th element when the
\* literal has at least 4 elements and the 4th is a numeric literal, and
\* keeps its value otherwise.  The functions map is left alone.
C25_ConstantsAndKey ==
    (fd.pc = "out" /\ fd.mode = "visit") =>
        LET i == FfTargetIndex(fd.before.variables, fd.a.left)
            els == fd.a.right.kids
        IN  (/\ i # NoVal /\ ~NoiseIndex(i)
             /\ fd.a.right.t = "array") =>
            (/\ fd.after.constants = i
             /\ fd.after.functions = fd.before.functions
             /\ fd.after.key = IF Len(els) >= 4 /\ els[4].t = "num"
                               THEN els[4].n ELSE fd.before.key)

\* C25 happens: the array with the 4th element 42 was assigned at the index
\* 3, then an array whose 4th element is an identifier at the index 4
C25_Witness ==
    /\ fd.pc = "out" /\ fd.mode = "visit"
    /\ fd.before.constants = 3 /\ fd.before.key = 42
    /\ Len(fd.a.right.kids) >= 4 /\ fd.a.right.kids[4].t = "ident"
    /\ fd.after.constants = 4 /\ fd.after.key = 42

(***************************************************************************)
(* FindFunctions: claim C17, under SpecFF                                  *)
(***************************************************************************)
\* an orphan assignment: its target resolves to an accepted index and its
\* right side is neither a name nor an array literal
IsOrphan(f, a) ==
    LET value == FfTargetIndex(f.variables, a.left)
    IN  /\ value # NoVal
        /\ value # 195 /\ value # 127 /\ value <= 1000
        /\ extract_function_name(a.right) = NoName
        /\ a.right.t # "array"

\* C17: an orphan assignment visited while the traversal is inside no
\* dispatcher function (before any dispatcher was visited, or after the
\* dispatcher has been left) records no mapping.
C17_OrphanInsideOnly ==
    [][ \A a \in Assignments :
          (/\ IsOrphan(ff, a)
           /\ \A k \in DOMAIN ff.around : ~ff.around[k]
           /\ ff' = AssignmentVisited(ff, a)) =>
          ff'.functions = ff.functions ]_vars

(***************************************************************************)
(* OpcodeParser: claims C5, C7, C10, C11 and C22, under SpecOP             *)
(***************************************************************************)
\* C5: no index is claimed twice: once a function body has claimed its
\* index (its name was taken out of the pending pool), no later function
\* body, of the same or of another name, writes an opcode to that index.
C5_NoDoubleClaim ==
    \A i, j \in DOMAIN op.claims :
        (i < j /\ op.claims[i].reg = op.claims[j].reg) => ~op.claims[j].wrote

\* C7: the classification of a pending function body never panics, whatever
\* the body: also not with 5 or 12 collected tests and fewer extracted bits
\* than the unary or the literal handler consumes.
C7_NeverPanics == ~op.panicked

\* the final statement is a[n] = b["push"](c)
IsPushTail(body) ==
    /\ body.last.t = "expr_stmt"
    /\ body.last.kids[1].t = "assign"
    /\ body.last.kids[1].kids[1].t = "computed"
    /\ body.last.kids[1].kids[2].t = "call"
    /\ LET callee == body.last.kids[1].kids[2].kids[1]
       IN  callee.t = "computed" /\ callee.kids[2] = Str("push")

PushNodes ==
    {node \in OpFunctionNodes :
        node.body.n \in 1 .. BigBody /\ node.name # NoName /\ IsPushTail(node.body)}

\* C10: the visit of a pending function body that is not the dispatcher and
\* whose final statement is a[n] = b["push"](c) leaves the opcode ArrayPush
\* at the index of the function, with the bits the plain extractor collects
\* over the whole body: also when the call has arguments of which the first
\* is no member expression (the SplicePop condition).
C10_PushTail ==
    [][ \A node \in PushNodes :
          (/\ node.name \in DOMAIN op.functions
           /\ op' = [OpVisitFunction(op, node) EXCEPT !.visited = @ + 1]) =>
          LET opcode_register == op.functions[node.name]
          IN  /\ opcode_register \in DOMAIN op'.opcodes
              /\ op'.opcodes[opcode_register] =
                    DefaultOpcode("ArrayPush", BitExtractor(node.body)) ]_vars

\* the final statement is a[n] = m, m a plain identifier
IsIdentTail(body) ==
    /\ body.last.t = "expr_stmt"
    /\ body.last.kids[1].t = "assign"
    /\ body.last.kids[1].kids[1].t = "computed"
    /\ body.last.kids[1].kids[2].t = "ident"

IdentTailNodes ==
    {node \in OpFunctionNodes :
        node.body.n \in 1 .. BigBody /\ node.name # NoName /\ IsIdentTail(node.body)}

\* the class the claim gives a body ending in a[n] = m
IdentTailClass(body) ==
    IF body.last.kids[1].kids[1].kids[2].t = "num" THEN "Jump"
    ELSE IF /\ body.n >= 2
            /\ body.prev.t = "expr_stmt"
            /\ body.prev.kids[1].t = "assign"
            /\ body.prev.kids[1].kids[1].t = "ident"
         THEN "Move"
         ELSE "SetProperty"

\* C11: the visit of a pending function body that is not the dispatcher and
\* whose final statement is a[n] = m, m a plain identifier, leaves at the
\* index of the function the opcode Jump when n is a numeric literal, Move
\* when n is none and the second-to-last statement assigns to a plain
\* identifier, SetProperty otherwise.
C11_IdentTail ==
    [][ \A node \in IdentTailNodes :
          (/\ node.name \in DOMAIN op.functions
           /\ op' = [OpVisitFunction(op, node) EXCEPT !.visited = @ + 1]) =>
          LET opcode_register == op.functions[node.name]
          IN  /\ opcode_register \in DOMAIN op'.opcodes
              /\ op'.opcodes[opcode_register].tag = IdentTailClass(node.body) ]_vars

\* C22: the visit of a function of more than 50 statements with VM_ENTRY
\* pending writes SetProperty with empty bits at the index of VM_ENTRY, and
\* from then on, whatever is visited, that index holds exactly this entry.
C22_DispatcherDefault ==
    \A i \in DOMAIN op.claims :
        op.claims[i].name = VM_ENTRY =>
            /\ op.claims[i].reg \in DOMAIN op.opcodes
            /\ op.opcodes[op.claims[i].reg] = DefaultOpcode("SetProperty", <<>>)


(***************************************************************************)
(* parse_script_interpreter: claims C6, C8, C9, C23 and C27, under SpecDis  *)
(***************************************************************************)
\* C6: parse_script_interpreter returns an error value, neither a panic nor
\* a success, when an artifact is missing, and the error names the artifact:
\* stated here for the initial VM payload and for the key expression (for
\* the key byte the function has no test at all: it hands FindFunctions::key
\* on as it is).
C6_MissingArtifactErrors ==
    dis.pc = "done" =>
        /\ dis.initial_vm = None => dis.result = "err_initial_vm"
        /\ (dis.initial_vm # None /\ dis.key_expr = None) =>
                dis.result = "err_key_expr"

\* the orders in which a map with the keys S can be iterated
Orders(S) ==
    {order \in [1 .. Cardinality(S) -> S] : \A k \in S : \E i \in DOMAIN order : order[i] = k}

\* the first loop over the opcode table in the given order
RECURSIVE NormalizedIn(_, _, _)
NormalizedIn(order, i, map) ==
    IF i > Len(order) THEN map
    ELSE NormalizedIn(order, i + 1, NormalizeEntry(map, op.opcodes, order[i]))

\* the second loop over the functions in the given order
RECURSIVE AliasesIn(_, _, _, _)
AliasesIn(order, i, map, names) ==
    IF i > Len(order) THEN names
    ELSE AliasesIn(order, i + 1, map,
                   MapFunction(names, map, op.opcodes, ff.functions,
                               ff.index_bits, order[i]))

\* C8: the alias map a run returns is the one every other run on the same
\* AST returns, whatever the order in which the two maps are iterated: also
\* with two opcodes of equal normalized bits, or two names of the same index.
C8_Deterministic ==
    dis.pc = "done" =>
        \A opcode_order \in Orders(DOMAIN op.opcodes),
           function_order \in Orders(DOMAIN ff.functions) :
            AliasesIn(function_order, 1,
                      NormalizedIn(opcode_order, 1, EmptyMap), EmptyMap)
                = dis.opcode_to_function_name

\* the opcode-table entries whose normalized bits are those of bits
Matches(bits) ==
    {j \in DOMAIN op.opcodes :
        normalize_bits(get_bits(op.opcodes[j])) = normalize_bits(bits)}

\* C9: a function name whose index has no opcode-table entry, but for whose
\* index raw bits were captured that normalize to the normalized bits of an
\* opcode-table entry, is aliased to the index of such an entry, exactly
\* once in the returned alias map.  Read with the rule of the spec that
\* bits which normalize to nothing match no entry.
C9_FallbackAlias ==
    dis.pc = "done" =>
        \A name \in DOMAIN ff.functions :
            LET idx == ff.functions[name]
                names == dis.opcode_to_function_name
            IN  (/\ idx \notin DOMAIN op.opcodes
                 /\ idx \in DOMAIN ff.index_bits
                 /\ normalize_bits(ff.index_bits[idx]) # <<>>
                 /\ Matches(ff.index_bits[idx]) # {}) =>
                (/\ \E j \in Matches(ff.index_bits[idx]) :
                        j \in DOMAIN names /\ names[j] = name
                 /\ Cardinality({j \in DOMAIN names : names[j] = name}) = 1)

\* C23: bits that normalize to nothing are no key of the normalized map, so
\* no entry with such bits is a fallback target; and in the returned alias
\* map a function whose index has no opcode and whose captured bits
\* normalize to nothing is aliased to no index.
C23_EmptyNeverAliased ==
    /\ \A bits \in DOMAIN dis.normalized_opcode_map :
          /\ bits # <<>>
          /\ normalize_bits(get_bits(op.opcodes[dis.normalized_opcode_map[bits]])) # <<>>
    /\ dis.pc = "done" =>
          \A name \in DOMAIN ff.functions :
              LET idx == ff.functions[name]
                  names == dis.opcode_to_function_name
              IN  (/\ idx \notin DOMAIN op.opcodes
                   /\ idx \in DOMAIN ff.index_bits
                   /\ normalize_bits(ff.index_bits[idx]) = <<>>) =>
                  \A j \in DOMAIN names : names[j] # name

\* C23 happens: g has index 8, the bits captured for 8 are the separator
\* alone, and the opcode at 3, the index of f, has the same bits
C23_Witness ==
    /\ dis.pc = "done"
    /\ ff.functions = ("f" :> 3 @@ "g" :> 8)
    /\ 8 \in DOMAIN ff.index_bits /\ ff.index_bits[8] = <<127>>
    /\ DOMAIN op.opcodes = {3} /\ get_bits(op.opcodes[3]) = <<127>>
    /\ dis.opcode_to_function_name = (3 :> "f")

\* C27: every key of the alias map is an index with an entry in the opcode
\* table, while the map is built and when it is returned.
C27_AliasKeysInTable ==
    DOMAIN dis.opcode_to_function_name \subseteq DOMAIN op.opcodes

\* C27 happens: f is aliased by the direct lookup, g, whose index 8 has no
\* opcode, by the fallback to the entry at 4
C27_Witness ==
    /\ dis.pc = "done"
    /\ ff.functions = ("f" :> 3 @@ "g" :> 8)
    /\ DOMAIN op.opcodes = {3, 4}
    /\ dis.opcode_to_function_name = (3 :> "f" @@ 4 :> "g")

(***************************************************************************)
(* ScriptVisitor: claims C13 and C14, under SpecSV                         *)
(***************************************************************************)
\* the call visited last is a call of an identifier whose first argument is
\* a string literal
StringCall(it) ==
    it.callee = "ident" /\ it.arguments # <<>> /\ it.arguments[1].t = "str"

\* C13: the visit of a call whose first argument is a string literal of
\* length L records the string as the initial payload when none is recorded
\* and 300 <= L <= 999, and leaves the initial payload as it was when
\* L < 300 or L >= 1000.
C13_InitialBand ==
    [][ (sv'.visited # sv.visited /\ StringCall(sv'.last)) =>
          LET text == sv'.last.arguments[1].text
              L == StrLen[text]
          IN  /\ (L >= 300 /\ L <= 999 /\ sv.initial_vm = None) =>
                    sv'.initial_vm = text
              /\ (L < 300 \/ L >= 1000) => sv'.initial_vm = sv.initial_vm ]_vars

\* C14: once recorded the initial payload never changes; the visit of a
\* qualifying call with a string of 1000 or more makes that string the main
\* payload, whatever was recorded, and every other visit leaves the main
\* payload as it was: the main payload is the string of the qualifying call
\* of that length visited last.
C14_FirstAndLast ==
    [][ /\ sv.initial_vm # None => sv'.initial_vm = sv.initial_vm
        /\ sv'.visited # sv.visited =>
             IF StringCall(sv'.last) /\ StrLen[sv'.last.arguments[1].text] >= 1000
             THEN sv'.main_vm = sv'.last.arguments[1].text
             ELSE sv'.main_vm = sv.main_vm ]_vars

\* C14 happens: with both payloads recorded, a call with another string of
\* length 301 was visited, after two calls with strings of 1000
C14_Witness ==
    /\ sv.visited = 4
    /\ sv.initial_vm = "s301"
    /\ sv.main_vm = "t1000"
    /\ sv.last = CallExpr("ident", <<StrArg("t301")>>)


(***************************************************************************)
(* FindOffset: claims C15 and C16, under SpecFO                            *)
(***************************************************************************)
\* C15: the offset is set by the first matching expression only: once it is
\* set (it is 0 before, and a match sets a literal that is not 0), no visit
\* changes it.
C15_FirstOffsetWins ==
    [][ fo.offset # 0 => fo'.offset = fo.offset ]_vars

\* the right side is expr & 255
IsMasked(right) ==
    right.t = "binary" /\ right.s = "&" /\ right.kids[2] = Num(255)

\* C16: the visit of an assignment whose right side is expr & 255 captures
\* it as the key expression when the assignment lies in a for statement, at
\* any depth and also after a nested for statement has ended, and captures
\* nothing when it lies in none.
C16_AnyLoopDepth ==
    [][ \A right \in FoRights :
          (/\ IsMasked(right)
           /\ fo' = [FoVisitAssignment(fo, right) EXCEPT !.visited = @ + 1,
                                                         !.last = right]) =>
          (/\ fo.depth > 0 => fo'.key_expr = right
           /\ fo.depth = 0 => fo'.key_expr = fo.key_expr) ]_vars


(***************************************************************************)
(* process_by_test_count: claims C18, C19 and C20, under SpecHd            *)
(***************************************************************************)
\* C18: the call dispatches on the number of tests: with 5 every test is the
\* key of a Unary entry, with 12 the index of the function holds a
\* NewLiteral entry, with 19 or 18 every test is the key of a Binary entry,
\* with 3 the index of the function holds a Heap entry, and with any other
\* number the table is left as it was.
C18_Dispatch ==
    hd.pc = "out" =>
        LET n == Len(hd.tests)
            Keyed(tag) ==
                /\ ~hd.out.panicked
                /\ \A k \in DOMAIN hd.tests :
                      /\ hd.tests[k] \in DOMAIN hd.out.opcodes
                      /\ hd.out.opcodes[hd.tests[k]].tag = tag
            Single(tag) ==
                /\ ~hd.out.panicked
                /\ hd.opcode_register \in DOMAIN hd.out.opcodes
                /\ hd.out.opcodes[hd.opcode_register].tag = tag
        IN  CASE n = 5 -> Keyed("Unary")
              [] n = 12 -> Single("NewLiteral")
              [] n \in {18, 19} -> Keyed("Binary")
              [] n = 3 -> Single("Heap")
              [] OTHER -> hd.out.opcodes = hd.opcodes /\ ~hd.out.panicked

\* the last position at which the k-th test value is collected
LastAt(tests, k) ==
    CHOOSE j \in DOMAIN tests :
        /\ tests[j] = tests[k]
        /\ \A i \in DOMAIN tests : tests[i] = tests[k] => i <= j

\* the Unary opcode of the j-th step: the j-th operator, the j-th pair of bits
UnaryAt(bits, j) == UnaryOpcode(<<bits[2 * j - 1], bits[2 * j]>>, UnaryOperator[j])

\* with 5 tests and 10 bits or more: no panic, no test left, and
\* every test value is a key whose entry is the one At gives
UnaryKeys(At(_)) ==
    (hd.pc = "out" /\ Len(hd.tests) = 5 /\ Len(hd.bits) >= 10) =>
        /\ ~hd.out.panicked
        /\ hd.out.tests = <<>>
        /\ \A k \in 1 .. 5 :
              /\ hd.tests[k] \in DOMAIN hd.out.opcodes
              /\ hd.out.opcodes[hd.tests[k]] = At(k)

\* C19 as claimed: the k-th test value holds the Unary opcode of the k-th
\* operator with the k-th pair of bits.
C19_UnaryKth ==
    LET At(k) == UnaryAt(hd.bits, k) IN UnaryKeys(At)

\* C19: with 5 tests and 10 bits or more the tests list is empty afterwards
\* and every test value is a key holding a Unary opcode: that of the k-th
\* operator with the k-th pair of bits when the value is collected once,
\* that of the last position at which it is collected when it comes twice.
C19_UnaryLastWins ==
    LET At(k) == UnaryAt(hd.bits, LastAt(hd.tests, k)) IN UnaryKeys(At)

\* C19 happens: 5 tests whose first and third are 100, 10 bits, and a table
\* that held another entry at 100
C19_Witness ==
    /\ hd.pc = "out"
    /\ hd.tests = <<100, 101, 100, 103, 104>>
    /\ Len(hd.bits) = 10
    /\ 100 \in DOMAIN hd.opcodes
    /\ hd.out.opcodes[100] = UnaryOpcode(<<25, 26>>, "Plus")
    /\ hd.out.opcodes[104] = UnaryOpcode(<<29, 30>>, "BitwiseNot")

\* the Binary opcode of the j-th step: the j-th operator, the next 3 binary
\* bits (fewer or none when they run out), the j-th swap flag (false when
\* none is left)
BinaryAt(bbits, swaps, j) ==
    BinaryOpcode(SubSeq(bbits, Min(3 * (j - 1), Len(bbits)) + 1, Min(3 * j, Len(bbits))),
                 BinaryOperator[j],
                 IF j <= Len(swaps) THEN swaps[j] ELSE FALSE)

\* with 19 or 18 tests: no panic, every test value is a key whose entry is
\* the one At gives, and with 18 tests no test value holds the operator In
BinaryKeys(At(_)) ==
    (hd.pc = "out" /\ Len(hd.tests) \in {18, 19}) =>
        /\ ~hd.out.panicked
        /\ \A k \in DOMAIN hd.tests :
              /\ hd.tests[k] \in DOMAIN hd.out.opcodes
              /\ hd.out.opcodes[hd.tests[k]] = At(k)
        /\ Len(hd.tests) = 18 =>
              \A k \in DOMAIN hd.tests : hd.out.opcodes[hd.tests[k]].operator # "In"

\* C20 as claimed: the k-th test value holds the Binary opcode of the k-th
\* step.
C20_BinaryKth ==
    LET At(k) == BinaryAt(hd.bbits, hd.swaps, k) IN BinaryKeys(At)

\* C20: with 19 or 18 tests every test value is a key holding a Binary
\* opcode: that of the k-th step (k-th operator, at most 3 bits from the
\* front of the remaining binary bits, the next swap flag or false) when the
\* value is collected once, that of the last position at which it is
\* collected when it comes twice; with 18 tests In is assigned to no key.
C20_BinaryLastWins ==
    LET At(k) == BinaryAt(hd.bbits, hd.swaps, LastAt(hd.tests, k)) IN BinaryKeys(At)

\* C20 happens: 18 tests whose second and fourth are 101, 4 binary bits and
\* one swap flag: the bits run out at the second step
C20_Witness ==
    /\ hd.pc = "out"
    /\ Len(hd.tests) = 18 /\ hd.tests[2] = 101 /\ hd.tests[4] = 101
    /\ hd.bbits = <<41, 42, 43, 44>> /\ hd.swaps = <<TRUE>>
    /\ hd.out.opcodes[100] = BinaryOpcode(<<41, 42, 43>>, "Addition", TRUE)
    /\ hd.out.opcodes[101] = BinaryOpcode(<<>>, "Division", FALSE)
    /\ hd.out.opcodes[117].operator = "InstanceOf"


(***************************************************************************)
(* OpcodeParser over one assignment and one function: claims C21, C28 and  *)
(* C29, under SpecVf                                                       *)
(***************************************************************************)
\* the function node is visited while its name is pending, and it is not
\* the dispatcher
PendingVisited ==
    /\ vf.pc = "out"
    /\ vf.node.body.n \in 1 .. BigBody
    /\ vf.node.name \in DOMAIN vf.mid.functions

\* the final statement is an assignment to a computed member
IsAssignTail(body) ==
    /\ body.last.t = "expr_stmt"
    /\ body.last.kids[1].t = "assign"
    /\ body.last.kids[1].kids[1].t = "computed"

\* a call without arguments whose callee is not ["push"], ["bind"], ["pop"]
IsPlainCall(right) ==
    /\ right.t = "call"
    /\ Len(right.kids) = 1
    /\ ~(/\ right.kids[1].t = "computed"
         /\ right.kids[1].kids[2] \in {Str("push"), Str("bind"), Str("pop")})

\* C21: a pending function that is not the dispatcher and whose final
\* statement assigns to a computed member has an opcode at its index after
\* its visit, and the opcode is SetProperty when the right side is a call
\* without arguments whose callee is not push, bind or pop.
C21_TotalCoverage ==
    (PendingVisited /\ IsAssignTail(vf.node.body)) =>
        LET opcode_register == vf.mid.functions[vf.node.name]
        IN  /\ opcode_register \in DOMAIN vf.after.opcodes
            /\ IsPlainCall(vf.node.body.last.kids[1].kids[2]) =>
                  vf.after.opcodes[opcode_register].tag = "SetProperty"

\* the tags the second-to-last statement of a body can leave at the index of
\* the function
SecondTags == {"NewLiteral", "Heap", "SwapRegister"}

\* C28: when a pending function that is not the dispatcher is visited
\* without panic and its final statement is one the classification writes an
\* opcode for, the entry at the index of the function is the final-statement
\* one (the last opcode that statement writes, with the bits of the whole
\* body), whatever the second-to-last statement wrote there before.
C28_FinalStays ==
    (/\ PendingVisited /\ ~vf.after.panicked
     /\ vf.node.body.n >= 2
     /\ FinalTags(vf.node.body) # <<>>) =>
        LET opcode_register == vf.mid.functions[vf.node.name]
            tags == FinalTags(vf.node.body)
        IN  /\ opcode_register \in DOMAIN vf.after.opcodes
            /\ vf.after.opcodes[opcode_register] =
                  DefaultOpcode(tags[Len(tags)],
                                extract_bits_for_default_opcode(vf.node.body))
            /\ vf.after.opcodes[opcode_register].tag \notin SecondTags

\* C28 happens: 12 tests over a conditional expression (a NewLiteral entry)
\* before the final statement a[n] = b["push"](c)
C28_Witness ==
    /\ PendingVisited /\ ~vf.after.panicked
    /\ vf.node.body.prev = CondStmt
    /\ Len(vf.node.body.tests) = 12
    /\ vf.node.body.last = PushStmt
    /\ vf.after.opcodes[vf.mid.functions[vf.node.name]].tag = "ArrayPush"

\* the assignment visited is name = call(...), name a pending function
NameAssigned ==
    /\ vf.pc \in {"assigned", "out"}
    /\ vf.a.left.t = "ident" /\ vf.a.right.t = "call"
    /\ vf.a.left.s \in DOMAIN vf.before.functions

\* the assignment takes the name out of the pool, records its index as
\* window_register and writes no opcode
AssignmentClaims ==
    NameAssigned =>
        /\ vf.a.left.s \notin DOMAIN vf.mid.functions
        /\ vf.mid.window_register = vf.before.functions[vf.a.left.s]
        /\ vf.mid.opcodes = vf.before.opcodes

\* C29 as claimed: a function declaration of the assigned name visited
\* afterwards writes no opcode, whatever its body.
C29_AssignedNameAny ==
    /\ AssignmentClaims
    /\ (NameAssigned /\ vf.pc = "out" /\ vf.node.name = vf.a.left.s) =>
          vf.after.opcodes = vf.mid.opcodes

\* C29: name = call(...) with name pending takes the name out of the pool,
\* records its index as window_register and writes no opcode; a function
\* declaration of that name visited afterwards writes no opcode, unless it
\* has more than 50 statements and VM_ENTRY is pending: such a declaration
\* is looked up as VM_ENTRY, not under its name.
C29_AssignedName ==
    /\ AssignmentClaims
    /\ (/\ NameAssigned /\ vf.pc = "out" /\ vf.node.name = vf.a.left.s
        /\ (vf.node.body.n <= BigBody \/ VM_ENTRY \notin DOMAIN vf.mid.functions)) =>
          vf.after.opcodes = vf.mid.opcodes

\* C29 happens: f = h() with f pending at 3, then the declaration of f,
\* whose final statement is a[n] = b["push"](c)
C29_Witness ==
    /\ NameAssigned /\ vf.pc = "out"
    /\ vf.a.left.s = "f" /\ vf.node.name = "f"
    /\ vf.node.body.n \in 1 .. BigBody /\ vf.node.body.last = PushStmt
    /\ vf.mid.window_register = 3
    /\ vf.after.opcodes = EmptyMap

(***************************************************************************)
(* resolve_expr against JavaScript: claim C26, under SpecFd                *)
(***************************************************************************)
\* JavaScript on the expressions of FdExprs.  A bit operator takes its
\* operands through ToInt32, which leaves every integer of the model as it
\* is and makes NaN 0; a shift takes its count modulo 32 and gives an int32.
JsInt32(val) == IF val.k = "nan" THEN 0 ELSE val.v

\* ToInt32(2 * x)
JsDouble(x) ==
    IF x >= 1073741824 THEN ((x - 1073741824) * 2 - 2147483647) - 1
    ELSE IF x < -1073741824 THEN ((x + 1073741824) * 2 + 2147483647) + 1
    ELSE 2 * x

RECURSIVE JsShiftLeft(_, _)
JsShiftLeft(x, count) ==
    IF count = 0 THEN x ELSE JsShiftLeft(JsDouble(x), count - 1)

JsShiftRight(x, count) ==
    IF count = 31 THEN (IF x < 0 THEN -1 ELSE 0) ELSE x \div 2 ^ count

JsBinary(o, l, r) ==
    CASE o \in {"+", "-", "*"} ->
            IF l.k = "nan" \/ r.k = "nan" THEN VNaN
            ELSE VInt(CASE o = "+" -> l.v + r.v
                        [] o = "-" -> l.v - r.v
                        [] OTHER -> l.v * r.v)
      [] o = "%" ->
            IF l.k = "nan" \/ r.k = "nan" \/ r.v = 0 THEN VNaN
            ELSE VInt((IF l.v < 0 THEN -1 ELSE 1) * (Abs(l.v) % Abs(r.v)))
      [] o \in {"&", "|", "^"} -> VInt(I64Bits(o, JsInt32(l), JsInt32(r)))
      [] o = "<<" -> VInt(JsShiftLeft(JsInt32(l), JsInt32(r) % 32))
      [] o = ">>" -> VInt(JsShiftRight(JsInt32(l), JsInt32(r) % 32))

JsFalsy(val) == val.k = "nan" \/ val.v = 0

RECURSIVE JsEval(_)
JsEval(expr) ==
    CASE expr.t = "num" -> VInt(expr.n)
      [] expr.t = "paren" -> JsEval(expr.kids[1])
      [] expr.t = "unary" ->
            LET val == JsEval(expr.kids[1])
            IN  (CASE expr.s = "-" -> IF val.k = "nan" THEN VNaN ELSE VInt(-val.v)
                   [] expr.s = "+" -> val
                   [] expr.s = "~" -> VInt(-JsInt32(val) - 1)
                   [] expr.s = "!" -> VInt(IF JsFalsy(val) THEN 1 ELSE 0))
      [] expr.t = "binary" -> JsBinary(expr.s, JsEval(expr.kids[1]), JsEval(expr.kids[2]))
      [] expr.t = "logical" ->
            LET left == JsEval(expr.kids[1])
            IN  (CASE expr.s = "||" ->
                         IF JsFalsy(left) THEN JsEval(expr.kids[2]) ELSE left
                   [] expr.s = "&&" ->
                         IF JsFalsy(left) THEN left ELSE JsEval(expr.kids[2])
                   [] expr.s = "??" -> left)
      [] expr.t = "cond" ->
            IF JsFalsy(JsEval(expr.kids[1]))
            THEN JsEval(expr.kids[3]) ELSE JsEval(expr.kids[2])

\* C26: resolve_expr folds an expression of numeric literals, combined with
\* + - * % & | ^ << >>, unary - + ~ !, || && ?? and the ternary, to the
\* value JavaScript gives it, !x counted as 1 or 0.
C26_AgreesWithJs ==
    (fd.pc = "out" /\ fd.mode = "fold") => fd.val = JsEval(fd.expr)

(***************************************************************************)
(* TaskClient::initialize_solve: claim C30, under SpecTC                   *)
(***************************************************************************)
\* the page came without a cRay: not in the HTML, and no cf-ray header
NoRay == tc.html.c_ray = "" /\ tc.header = None

\* C30: when initialize_solve returns Ok, the returned options have a
\* non-empty c_ray and a non-empty zone and the field solve_url is the
\* returned URL; while the orchestrate request is out, solve_url is set and
\* is the Referer of the request; a page with neither a cRay in the HTML nor
\* a cf-ray header ends in Err.
C30_OkHasRay ==
    /\ tc.result = "ok" =>
          /\ tc.challenge.c_ray # ""
          /\ tc.challenge.zone # ""
          /\ tc.solve_url = tc.url
    /\ tc.pc = "orchestrating" =>
          /\ tc.solve_url = tc.url
          /\ tc.referer = tc.url
    /\ (tc.pc \in {"orchestrating", "done"} /\ tc.header = None /\ tc.html.c_ray = "") =>
          /\ tc.result \in {"none", "err"}
          /\ tc.pc = "done" => tc.result = "err"
====
